---- MODULE Spec2Model ----
(***************************************************************************)
(* A model of json-schema-lite (src/src/index.js): the schema registry,    *)
(* validate / registerSchema, the recursion validateSchema and the keyword *)
(* handlers.  JSON values are tagged records of one shape, so that any two *)
(* of them can be compared.  Numbers are integers.  A location string      *)
(* "<base>#/<seg>/<seg>" is the record [base, ptr] of its base URI and its *)
(* already encoded pointer segments.                                       *)
(***************************************************************************)
EXTENDS Integers, Sequences, FiniteSets, TLC

VARIABLES
  schemaRegistry,  \* index.js:101  Map<string, JsonNode>, as a function on Uris
  pending,         \* the inputs of the call a single-call run is about to make
  last,            \* the most recent API call: its inputs and its outcome
  first,           \* history: the first validate call of the run (or NoCall)
  preRegistered,   \* history: per URI, the schema last given to registerSchema
  overwritten      \* history: the URIs a validate call computed since then

vars == <<schemaRegistry, pending, last, first, preRegistered, overwritten>>

(***************************************************************************)
(* Bounds of the model.                                                    *)
(***************************************************************************)
\* deepest nesting of validateSchema calls before the engine's call stack
\* is taken to be exhausted (a RangeError in the source's runtime)
MaxDepth == 7

(***************************************************************************)
(* Raw JSON values (the type Json of index.js:15).                         *)
(***************************************************************************)
Raw(t, b, n, s, m) == [jsonType |-> t, bval |-> b, nval |-> n, sval |-> s, members |-> m]

JNull == Raw("null", FALSE, 0, "", <<>>)
JTrue == Raw("boolean", TRUE, 0, "", <<>>)
JFalse == Raw("boolean", FALSE, 0, "", <<>>)
JNum(n) == Raw("number", FALSE, n, "", <<>>)
JStr(s) == Raw("string", FALSE, 0, s, <<>>)
JArr(items) == Raw("array", FALSE, 0, "", items)
\* an object is the sequence of its members, in document order
JObj(members) == Raw("object", FALSE, 0, "", members)
\* one member of an object: the key and the value
M(k, v) == Raw("member", FALSE, 0, k, <<v>>)
\* a JavaScript value that is no JSON value (undefined, a function, NaN)
JUndefined == Raw("undefined", FALSE, 0, "", <<>>)

RECURSIVE ValidJson(_)
ValidJson(raw) ==
  /\ raw.jsonType # "undefined"
  /\ \A i \in 1..Len(raw.members) : ValidJson(raw.members[i])

(***************************************************************************)
(* Locations and JSON Pointer segments.                                    *)
(***************************************************************************)
Loc(base, ptr) == [base |-> base, ptr |-> ptr]

\* the decimal rendering of an array index
IndexSegment(i) == <<"0", "1", "2", "3", "4", "5">>[i + 1]

\* RFC 6901 escaping of a key ("~" -> "~0", "/" -> "~1"), on the keys of the model
PointerEscape(key) ==
  CASE key = "a/b" -> "a~1b"
    [] OTHER -> key

\* RFC 6901 escaping followed by percent-encoding for a URI fragment
EncodeSegment(key) ==
  CASE key = "^f" -> "%5Ef"
    [] key = "^b" -> "%5Eb"
    [] key = "a b" -> "a%20b"
    [] key = "(b)\\1" -> "(b)%5C1"
    [] OTHER -> PointerEscape(key)

\* JsonPointer.append(segment, pointer): RFC 6901 escaping only
JsonPointerAppend(key, location) ==
  Loc(location.base, Append(location.ptr, PointerEscape(key)))

(***************************************************************************)
(* The located JSON tree (JsonNode of jsonast.d.ts) and its utilities      *)
(* (jsonast-util.js).                                                      *)
(***************************************************************************)
Node(ty, t, b, n, s, c, l) ==
  [type |-> ty, jsonType |-> t, bval |-> b, nval |-> n, sval |-> s,
   children |-> c, location |-> l]

\* what Map.get returns for a missing key
NoNode == Node("absent", "", FALSE, 0, "", <<>>, Loc("", <<>>))

RECURSIVE BuildNode(_, _)
BuildNode(raw, location) ==
  LET childLocation(i) ==
        IF raw.jsonType = "array"
        THEN Loc(location.base, Append(location.ptr, IndexSegment(i - 1)))
        ELSE Loc(location.base, Append(location.ptr, EncodeSegment(raw.members[i].sval)))
      child(i) ==
        IF raw.jsonType = "array"
        THEN BuildNode(raw.members[i], childLocation(i))
        ELSE Node("json-property", "", FALSE, 0, "",
                  << Node("json", "string", FALSE, 0, raw.members[i].sval, <<>>,
                          childLocation(i)),
                     BuildNode(raw.members[i].members[1], childLocation(i)) >>,
                  childLocation(i))
  IN Node("json", raw.jsonType, raw.bval, raw.nval, raw.sval,
          [i \in 1..Len(raw.members) |-> child(i)], location)

\* toJsonNode(value, uri = ""): the tree rooted at "<uri>#"
toJsonNode(raw, uri) == BuildNode(raw, Loc(uri, <<>>))

\* jsonObjectKeys(node): the keys of an object node, in document order
jsonObjectKeys(node) == [i \in 1..Len(node.children) |-> node.children[i].children[1].sval]

\* jsonObjectHas(key, node)
jsonObjectHas(key, node) ==
  /\ node.jsonType = "object"
  /\ \E i \in 1..Len(node.children) : node.children[i].children[1].sval = key

\* jsonPointerStep(key, node): the value slot of the member named key
jsonPointerStep(key, node) ==
  LET i == CHOOSE j \in 1..Len(node.children) : node.children[j].children[1].sval = key
  IN node.children[i].children[2]


\* jsonPointerGet(pointer, node, uri): walk the (decoded) pointer from a root;
\* NoNode stands for the failure on a dangling step
RECURSIVE jsonPointerGet(_, _)
jsonPointerGet(pointer, node) ==
  IF pointer = <<>> THEN node
  ELSE IF node.jsonType = "object" /\ jsonObjectHas(Head(pointer), node)
  THEN jsonPointerGet(Tail(pointer), jsonPointerStep(Head(pointer), node))
  ELSE IF node.jsonType = "array"
          /\ \E i \in 1..Len(node.children) : IndexSegment(i - 1) = Head(pointer)
  THEN jsonPointerGet(Tail(pointer),
         node.children[CHOOSE i \in 1..Len(node.children) : IndexSegment(i - 1) = Head(pointer)])
  ELSE NoNode

\* jsonStringify(jsonValue(a)) === jsonStringify(jsonValue(b)): equality of the
\* values, whatever the order of the members of their objects
RECURSIVE CanonicalEqual(_, _)
CanonicalEqual(a, b) ==
  /\ a.jsonType = b.jsonType
  /\ a.bval = b.bval /\ a.nval = b.nval /\ a.sval = b.sval
  /\ Len(a.children) = Len(b.children)
  /\ IF a.jsonType = "object"
     THEN \A i \in 1..Len(a.children) :
            /\ jsonObjectHas(jsonObjectKeys(a)[i], b)
            /\ CanonicalEqual(a.children[i].children[2],
                              jsonPointerStep(jsonObjectKeys(a)[i], b))
     ELSE \A i \in 1..Len(a.children) : CanonicalEqual(a.children[i], b.children[i])

(***************************************************************************)
(* External primitives, on the strings of the model.                       *)
(***************************************************************************)
\* the parts of an IRI reference: its absolute IRI (toAbsoluteIri: the
\* reference without its fragment) and its fragment as a decoded JSON Pointer
\* (decodeURI(parseIriReference(s).fragment))
IriParts(s) ==
  CASE s = "#" -> [base |-> "", pointer |-> <<>>]
    [] s = "#/$defs/a" -> [base |-> "", pointer |-> <<"$defs", "a">>]
    [] s = "#/$defs/b" -> [base |-> "", pointer |-> <<"$defs", "b">>]
    [] s = "#/$defs/missing" -> [base |-> "", pointer |-> <<"$defs", "missing">>]
    [] s = "#/items" -> [base |-> "", pointer |-> <<"items">>]
    [] s = "urn:u1#/$defs/a" -> [base |-> "urn:u1", pointer |-> <<"$defs", "a">>]
    [] OTHER -> [base |-> s, pointer |-> <<>>]

\* new RegExp(pattern, "u").test(string), for the patterns and the strings of
\* the model
RegExpTest(pattern, string) ==
  CASE pattern = "^f" -> string \in {"foo", "f-g", "f"}
    [] pattern = "^b" -> string \in {"bar", "baz", "b", "bb"}
    [] pattern = "o" -> string \in {"foo"}
    [] pattern = "^a" -> string \in {"a", "a/b", "a b", "abc", "a.b", "axb"}
    [] pattern = "(a)" ->
         string \in {"a", "a/b", "a b", "abc", "a.b", "axb", "bar", "baz"}
    [] pattern = "(b)\\1" -> string \in {"bb"}
    [] pattern = "^foo$" -> string = "foo"
    [] pattern = "^bar$" -> string = "bar"
    [] pattern = "^\\^f$" -> string = "^f"
    [] pattern = "^^f$" -> string = "f"
    [] pattern = "^a\\.b$" -> string = "a.b"
    [] pattern = "^a.b$" -> string \in {"a.b", "axb", "a/b", "a b"}
    [] pattern = "^f\\x2dg$" -> string = "f-g"
    [] OTHER -> FALSE

\* the number of capture groups of a pattern
Groups(pattern) == IF pattern \in {"(a)", "(b)\\1"} THEN 1 ELSE 0

RECURSIVE GroupsBefore(_, _)
GroupsBefore(patterns, k) ==
  IF k <= 1 THEN 0 ELSE GroupsBefore(patterns, k - 1) + Groups(patterns[k - 1])

\* new RegExp(patterns.join("|"), "u").test(string).  The groups of the joined
\* pattern are numbered across its alternatives, so the backreference of
\* "(b)\1" is to its own group only when no alternative before it has a
\* group; otherwise it is to a group that takes no part in the match of this
\* alternative, and matches the empty string
RegExpUnionTest(patterns, string) ==
  \E k \in 1..Len(patterns) :
    IF patterns[k] = "(b)\\1" /\ GroupsBefore(patterns, k) > 0
    THEN string \in {"b", "bb", "bar", "baz", "abc", "a/b", "a b", "a.b", "axb"}
    ELSE RegExpTest(patterns[k], string)

\* [...string].length: the number of code points
CodePoints(string) ==
  CASE string = "" -> 0
    [] string \in {"a", "f", "b"} -> 1
    [] string \in {"a/b", "a b", "foo", "bar", "baz", "abc", "f-g", "a.b", "axb", "(a)"} -> 3
    [] string = "(b)\\1" -> 5
    [] OTHER -> 2

\* a % b of JavaScript on integers, for b # 0: the sign of the dividend
JsRemainder(a, b) ==
  LET abs(x) == IF x < 0 THEN -x ELSE x
  IN IF a < 0 THEN -(abs(a) % abs(b)) ELSE a % abs(b)

(***************************************************************************)
(* Results of the recursion.  A call validateSchema(schema, instance,      *)
(* errors) is the record of what it threw ("" when it returned), what it   *)
(* returned and the units it appended to errors.  A handler call is the    *)
(* same, errors being the content of its buffer when it returned.          *)
(*                                                                         *)
(* History: each unit carries its origin, the chain of schema applications *)
(* it was produced under, outermost first.  The origin is no field of the  *)
(* source's OutputUnit; Output (below) drops it.                           *)
(***************************************************************************)
Pass == [thrown |-> "", ok |-> TRUE, errors |-> <<>>]
Returned(ok, errors) == [thrown |-> "", ok |-> ok, errors |-> errors]
Throw(e) == [thrown |-> e, ok |-> FALSE, errors |-> <<>>]

\* one application of a schema node to an instance node, and the keyword of
\* it that was dispatched ("" for a boolean schema); pass is what the
\* keyword's handler returned
Frame(schemaNode, instanceNode, keyword, index, pass) ==
  [schema |-> schemaNode.location, instance |-> instanceNode.location,
   keyword |-> keyword, index |-> index, pass |-> pass]

OutputUnit(absoluteKeywordLocation, instanceLocation, origin) ==
  [absoluteKeywordLocation |-> absoluteKeywordLocation,
   instanceLocation |-> instanceLocation, origin |-> origin]

\* the units of a buffer, recorded as produced under one more application
Under(frame, errors) ==
  [i \in 1..Len(errors) |->
     OutputUnit(errors[i].absoluteKeywordLocation, errors[i].instanceLocation,
                <<frame>> \o errors[i].origin)]

RECURSIVE Flatten(_)
Flatten(seqs) == IF Len(seqs) = 0 THEN <<>> ELSE Head(seqs) \o Flatten(Tail(seqs))

\* what the first throwing call of a sequence of calls threw ("" if none did)
FirstThrown(rs) ==
  IF \E k \in 1..Len(rs) : rs[k].thrown # ""
  THEN rs[CHOOSE k \in 1..Len(rs) :
            rs[k].thrown # "" /\ \A j \in 1..(k - 1) : rs[j].thrown = ""].thrown
  ELSE ""

\* a loop of calls sharing one buffer, none skipped: it throws what the first
\* throwing call threw, else returns ok with the units of all calls, in order
Loop(rs, ok) ==
  IF FirstThrown(rs) # "" THEN Throw(FirstThrown(rs))
  ELSE Returned(ok, Flatten([k \in 1..Len(rs) |-> rs[k].errors]))

\* a short-circuiting scan (Array.every, Array.some, a for loop with an early
\* return) over outcomes "go" | "stop" | "throw": the first that is not "go"
FirstStop(outcomes) ==
  IF \E k \in 1..Len(outcomes) : outcomes[k] # "go"
  THEN outcomes[CHOOSE k \in 1..Len(outcomes) :
            outcomes[k] # "go" /\ \A j \in 1..(k - 1) : outcomes[j] = "go"]
  ELSE "go"


(***************************************************************************)
(* The keyword handlers (index.js:117-633) and the recursion.  A handler is *)
(* (keyword value node, instance node, enclosing schema node); reg is the  *)
(* registry it reads and depth the nesting of validateSchema calls.        *)
(***************************************************************************)
RECURSIVE validateSchema(_, _, _, _)

\* Number.MAX_SAFE_INTEGER, cut to the integers of the model checker: larger
\* than the length of every array
MAX_SAFE_INTEGER == 2147483647

\* the calls validateSchema(calls[k][1], calls[k][2], errors) of a loop
Calls(calls, reg, depth) ==
  [k \in 1..Len(calls) |-> validateSchema(calls[k][1], calls[k][2], reg, depth)]

\* refHandler recursing into the target with a buffer of its own, which it drops
refHandlerDropsErrors(refNode, instanceNode, schemaNode, reg, depth) ==
  IF refNode.jsonType # "string" THEN Throw("InvalidSchema")
  ELSE
    LET uri == IF refNode.location.base = ""
               THEN IriParts(refNode.sval).base
               ELSE IF IriParts(refNode.sval).base = ""
                    THEN refNode.location.base
                    ELSE IriParts(refNode.sval).base
        target == reg[uri]
        referencedSchemaNode == jsonPointerGet(IriParts(refNode.sval).pointer, target)
        r == validateSchema(referencedSchemaNode, instanceNode, reg, depth)
    IN IF uri \notin DOMAIN reg \/ target = NoNode THEN Throw("InvalidReference")
       ELSE IF referencedSchemaNode = NoNode THEN Throw("InvalidReference")
       ELSE IF r.thrown # "" THEN r ELSE Returned(r.ok, <<>>)

refHandler(refNode, instanceNode, schemaNode, reg, depth) ==
  IF refNode.jsonType # "string" THEN Throw("InvalidSchema")
  ELSE
    LET uri == IF refNode.location.base = ""
               THEN IriParts(refNode.sval).base
               ELSE IF IriParts(refNode.sval).base = ""
                    THEN refNode.location.base
                    ELSE IriParts(refNode.sval).base
        target == reg[uri]
        referencedSchemaNode == jsonPointerGet(IriParts(refNode.sval).pointer, target)
    IN IF uri \notin DOMAIN reg \/ target = NoNode THEN Throw("InvalidReference")
       ELSE IF referencedSchemaNode = NoNode THEN Throw("InvalidReference")
       ELSE validateSchema(referencedSchemaNode, instanceNode, reg, depth)

\* string.replace(/[|\\{}()[\]^$+*?.]/g, "\\$&").replace(/-/g, "\\x2d"), on the
\* names of the model
regexEscape(string) ==
  CASE string = "^f" -> "\\^f"
    [] string = "a.b" -> "a\\.b"
    [] string = "f-g" -> "f\\x2dg"
    [] OTHER -> string

additionalPropertiesHandler(additionalPropertiesNode, instanceNode, schemaNode, reg, depth) ==
  IF instanceNode.jsonType # "object" THEN Pass
  ELSE
    LET propertyNames ==
          IF jsonObjectHas("properties", schemaNode)
             /\ jsonPointerStep("properties", schemaNode).jsonType = "object"
          THEN jsonObjectKeys(jsonPointerStep("properties", schemaNode))
          ELSE <<>>
        patterns ==
          IF jsonObjectHas("patternProperties", schemaNode)
             /\ jsonPointerStep("patternProperties", schemaNode).jsonType = "object"
          THEN jsonObjectKeys(jsonPointerStep("patternProperties", schemaNode))
          ELSE <<>>
        propertyPatterns ==
          [i \in 1..Len(propertyNames) |-> "^" \o regexEscape(propertyNames[i]) \o "$"]
          \o patterns
        \* the union pattern: "^<escaped name>$" for each name, the raw patterns,
        \* or "(?!)", which matches nothing
        isDefinedProperty(name) ==
          IF Len(propertyPatterns) > 0 THEN RegExpUnionTest(propertyPatterns, name)
          ELSE RegExpTest("(?!)", name)
        additional(propertyNode) == ~isDefinedProperty(propertyNode.children[1].sval)
        members == SelectSeq(instanceNode.children, additional)
        rs == Calls([k \in 1..Len(members) |->
                       <<additionalPropertiesNode, members[k].children[2]>>], reg, depth)
    IN Loop(rs, \A k \in 1..Len(rs) : rs[k].ok)

\* allOfHandler returning false at the first member that rejects
allOfHandlerShortCircuit(allOfNode, instanceNode, schemaNode, reg, depth) ==
  IF allOfNode.jsonType # "array" THEN Throw("InvalidSchema")
  ELSE
    LET rs == Calls([k \in 1..Len(allOfNode.children) |->
                       <<allOfNode.children[k], instanceNode>>], reg, depth)
        stops(k) == rs[k].thrown # "" \/ ~rs[k].ok
        n == IF \E k \in 1..Len(rs) : stops(k)
             THEN CHOOSE k \in 1..Len(rs) : stops(k) /\ \A j \in 1..(k - 1) : ~stops(j)
             ELSE Len(rs)
    IN Loop(SubSeq(rs, 1, n), \A k \in 1..n : rs[k].ok)

allOfHandler(allOfNode, instanceNode, schemaNode, reg, depth) ==
  IF allOfNode.jsonType # "array" THEN Throw("InvalidSchema")
  ELSE
    LET rs == Calls([k \in 1..Len(allOfNode.children) |->
                       <<allOfNode.children[k], instanceNode>>], reg, depth)
    IN Loop(rs, \A k \in 1..Len(rs) : rs[k].ok)

anyOfHandler(anyOfNode, instanceNode, schemaNode, reg, depth) ==
  IF anyOfNode.jsonType # "array" THEN Throw("InvalidSchema")
  ELSE
    LET rs == Calls([k \in 1..Len(anyOfNode.children) |->
                       <<anyOfNode.children[k], instanceNode>>], reg, depth)
    IN Loop(rs, \E k \in 1..Len(rs) : rs[k].ok)

oneOfHandler(oneOfNode, instanceNode, schemaNode, reg, depth) ==
  IF oneOfNode.jsonType # "array" THEN Throw("InvalidSchema")
  ELSE
    LET rs == Calls([k \in 1..Len(oneOfNode.children) |->
                       <<oneOfNode.children[k], instanceNode>>], reg, depth)
    IN Loop(rs, Cardinality({k \in 1..Len(rs) : rs[k].ok}) = 1)

\* notHandler with the recursion wrapped in a try/catch that takes a throw
\* for a rejection
notHandlerSwallows(notNode, instanceNode, schemaNode, reg, depth) ==
  LET r == validateSchema(notNode, instanceNode, reg, depth)
  IN IF r.thrown # "" THEN Pass ELSE Returned(~r.ok, <<>>)

\* notHandler without the negation
notHandlerUnnegated(notNode, instanceNode, schemaNode, reg, depth) ==
  LET r == validateSchema(notNode, instanceNode, reg, depth)
  IN IF r.thrown # "" THEN Throw(r.thrown) ELSE Returned(r.ok, <<>>)

notHandler(notNode, instanceNode, schemaNode, reg, depth) ==
  LET r == validateSchema(notNode, instanceNode, reg, depth)
  IN IF r.thrown # "" THEN Throw(r.thrown) ELSE Returned(~r.ok, <<>>)

containsHandler(containsNode, instanceNode, schemaNode, reg, depth) ==
  IF instanceNode.jsonType # "array" THEN Pass
  ELSE
    LET minContains ==
          IF jsonObjectHas("minContains", schemaNode)
             /\ jsonPointerStep("minContains", schemaNode).jsonType = "number"
          THEN jsonPointerStep("minContains", schemaNode).nval ELSE 1
        maxContains ==
          IF jsonObjectHas("maxContains", schemaNode)
             /\ jsonPointerStep("maxContains", schemaNode).jsonType = "number"
          THEN jsonPointerStep("maxContains", schemaNode).nval ELSE MAX_SAFE_INTEGER
        rs == Calls([k \in 1..Len(instanceNode.children) |->
                       <<containsNode, instanceNode.children[k]>>], reg, depth)
        matches == Cardinality({k \in 1..Len(rs) : rs[k].ok})
    IN Loop(rs, matches >= minContains /\ matches <= maxContains)

dependentSchemasHandler(dependentSchemasNode, instanceNode, schemaNode, reg, depth) ==
  IF instanceNode.jsonType # "object" THEN Pass
  ELSE IF dependentSchemasNode.jsonType # "object" THEN Throw("InvalidSchema")
  ELSE
    LET present(propertyNode) == jsonObjectHas(propertyNode.children[1].sval, instanceNode)
        members == SelectSeq(dependentSchemasNode.children, present)
        rs == Calls([k \in 1..Len(members) |->
                       <<members[k].children[2], instanceNode>>], reg, depth)
    IN Loop(rs, \A k \in 1..Len(rs) : rs[k].ok)

\* thenHandler recursing into `then` when there is no sibling `if`
thenHandlerWithoutIf(thenNode, instanceNode, schemaNode, reg, depth) ==
  IF jsonObjectHas("if", schemaNode)
  THEN LET r == validateSchema(jsonPointerStep("if", schemaNode), instanceNode, reg, depth)
       IN IF r.thrown # "" THEN Throw(r.thrown)
          ELSE IF r.ok THEN validateSchema(thenNode, instanceNode, reg, depth)
          ELSE Pass
  ELSE validateSchema(thenNode, instanceNode, reg, depth)

thenHandler(thenNode, instanceNode, schemaNode, reg, depth) ==
  IF jsonObjectHas("if", schemaNode)
  THEN LET r == validateSchema(jsonPointerStep("if", schemaNode), instanceNode, reg, depth)
       IN IF r.thrown # "" THEN Throw(r.thrown)
          ELSE IF r.ok THEN validateSchema(thenNode, instanceNode, reg, depth)
          ELSE Pass
  ELSE Pass

\* elseHandler with `if` evaluated into the handler's own buffer
elseHandlerSharedBuffer(elseNode, instanceNode, schemaNode, reg, depth) ==
  IF jsonObjectHas("if", schemaNode)
  THEN LET r == validateSchema(jsonPointerStep("if", schemaNode), instanceNode, reg, depth)
           e == validateSchema(elseNode, instanceNode, reg, depth)
       IN IF r.thrown # "" THEN Throw(r.thrown)
          ELSE IF ~r.ok
          THEN IF e.thrown # "" THEN Throw(e.thrown) ELSE Returned(e.ok, r.errors \o e.errors)
          ELSE Pass
  ELSE Pass

elseHandler(elseNode, instanceNode, schemaNode, reg, depth) ==
  IF jsonObjectHas("if", schemaNode)
  THEN LET r == validateSchema(jsonPointerStep("if", schemaNode), instanceNode, reg, depth)
       IN IF r.thrown # "" THEN Throw(r.thrown)
          ELSE IF ~r.ok THEN validateSchema(elseNode, instanceNode, reg, depth)
          ELSE Pass
  ELSE Pass

\* itemsHandler that does not look at the sibling prefixItems
itemsHandlerEveryItem(itemsNode, instanceNode, schemaNode, reg, depth) ==
  IF instanceNode.jsonType # "array" THEN Pass
  ELSE
    LET rs == Calls([k \in 1..Len(instanceNode.children) |->
                       <<itemsNode, instanceNode.children[k]>>], reg, depth)
    IN Loop(rs, \A k \in 1..Len(rs) : rs[k].ok)

itemsHandler(itemsNode, instanceNode, schemaNode, reg, depth) ==
  IF instanceNode.jsonType # "array" THEN Pass
  ELSE
    LET numberOfPrefixItems ==
          IF jsonObjectHas("prefixItems", schemaNode)
             /\ jsonPointerStep("prefixItems", schemaNode).jsonType = "array"
          THEN Len(jsonPointerStep("prefixItems", schemaNode).children) ELSE 0
        rest == SubSeq(instanceNode.children, numberOfPrefixItems + 1,
                       Len(instanceNode.children))
        rs == Calls([k \in 1..Len(rest) |-> <<itemsNode, rest[k]>>], reg, depth)
    IN Loop(rs, \A k \in 1..Len(rs) : rs[k].ok)

patternPropertiesHandler(patternPropertiesNode, instanceNode, schemaNode, reg, depth) ==
  IF instanceNode.jsonType # "object" THEN Pass
  ELSE IF patternPropertiesNode.jsonType # "object" THEN Throw("InvalidSchema")
  ELSE
    LET callsOf(patternProperty) ==
          LET matching(propertyNode) ==
                RegExpTest(patternProperty.children[1].sval, propertyNode.children[1].sval)
              members == SelectSeq(instanceNode.children, matching)
          IN [k \in 1..Len(members) |->
                <<patternProperty.children[2], members[k].children[2]>>]
        rs == Calls(Flatten([p \in 1..Len(patternPropertiesNode.children) |->
                               callsOf(patternPropertiesNode.children[p])]), reg, depth)
    IN Loop(rs, \A k \in 1..Len(rs) : rs[k].ok)

prefixItemsHandler(prefixItemsNode, instanceNode, schemaNode, reg, depth) ==
  IF instanceNode.jsonType # "array" THEN Pass
  ELSE IF prefixItemsNode.jsonType # "array" THEN Throw("InvalidSchema")
  ELSE
    LET n == IF Len(prefixItemsNode.children) < Len(instanceNode.children)
             THEN Len(prefixItemsNode.children) ELSE Len(instanceNode.children)
        rs == Calls([k \in 1..n |->
                       <<prefixItemsNode.children[k], instanceNode.children[k]>>], reg, depth)
    IN Loop(rs, \A k \in 1..Len(rs) : rs[k].ok)

propertiesHandler(propertiesNode, instanceNode, schemaNode, reg, depth) ==
  IF instanceNode.jsonType # "object" THEN Pass
  ELSE IF propertiesNode.jsonType # "object" THEN Throw("InvalidSchema")
  ELSE
    LET defined(propertyNode) == jsonObjectHas(propertyNode.children[1].sval, propertiesNode)
        members == SelectSeq(instanceNode.children, defined)
        rs == Calls([k \in 1..Len(members) |->
                       <<jsonPointerStep(members[k].children[1].sval, propertiesNode),
                         members[k].children[2]>>], reg, depth)
    IN Loop(rs, \A k \in 1..Len(rs) : rs[k].ok)

propertyNamesHandler(propertyNamesNode, instanceNode, schemaNode, reg, depth) ==
  IF instanceNode.jsonType # "object" THEN Pass
  ELSE
    LET keyNode(propertyNode) ==
          Node("json", "string", FALSE, 0, propertyNode.children[1].sval, <<>>,
               JsonPointerAppend(propertyNode.children[1].sval, instanceNode.location))
        rs == Calls([k \in 1..Len(instanceNode.children) |->
                       <<propertyNamesNode, keyNode(instanceNode.children[k])>>], reg, depth)
    IN Loop(rs, \A k \in 1..Len(rs) : rs[k].ok)


constHandler(constNode, instanceNode, schemaNode, reg, depth) ==
  Returned(CanonicalEqual(instanceNode, constNode), <<>>)

dependentRequiredHandler(dependentRequiredNode, instanceNode, schemaNode, reg, depth) ==
  IF instanceNode.jsonType # "object" THEN Pass
  ELSE IF dependentRequiredNode.jsonType # "object" THEN Throw("InvalidSchema")
  ELSE
    LET required(requiredPropertyNode) ==
          IF requiredPropertyNode.jsonType # "string" THEN "throw"
          ELSE IF jsonObjectHas(requiredPropertyNode.sval, instanceNode) THEN "go"
          ELSE "stop"
        condition(propertyNode) ==
          IF ~jsonObjectHas(propertyNode.children[1].sval, instanceNode) THEN "go"
          ELSE IF propertyNode.children[2].jsonType # "array" THEN "throw"
          ELSE FirstStop([k \in 1..Len(propertyNode.children[2].children) |->
                            required(propertyNode.children[2].children[k])])
        outcome == FirstStop([k \in 1..Len(dependentRequiredNode.children) |->
                                condition(dependentRequiredNode.children[k])])
    IN IF outcome = "throw" THEN Throw("InvalidSchema") ELSE Returned(outcome = "go", <<>>)

enumHandler(enumNode, instanceNode, schemaNode, reg, depth) ==
  IF enumNode.jsonType # "array" THEN Throw("InvalidSchema")
  ELSE Returned(\E k \in 1..Len(enumNode.children) :
                  CanonicalEqual(enumNode.children[k], instanceNode), <<>>)

\* the handlers of the form: pass on an instance of another type, assert the
\* type of the keyword value, compare
Assertion(instanceType, keywordNode, keywordType, instanceNode, holds) ==
  IF instanceNode.jsonType # instanceType THEN Pass
  ELSE IF keywordNode.jsonType # keywordType THEN Throw("InvalidSchema")
  ELSE Returned(holds, <<>>)

exclusiveMaximumHandler(exclusiveMaximumNode, instanceNode, schemaNode, reg, depth) ==
  Assertion("number", exclusiveMaximumNode, "number", instanceNode,
            instanceNode.nval < exclusiveMaximumNode.nval)

exclusiveMinimumHandler(exclusiveMinimumNode, instanceNode, schemaNode, reg, depth) ==
  Assertion("number", exclusiveMinimumNode, "number", instanceNode,
            instanceNode.nval > exclusiveMinimumNode.nval)

maxItemsHandler(maxItemsNode, instanceNode, schemaNode, reg, depth) ==
  Assertion("array", maxItemsNode, "number", instanceNode,
            Len(instanceNode.children) <= maxItemsNode.nval)

minItemsHandler(minItemsNode, instanceNode, schemaNode, reg, depth) ==
  Assertion("array", minItemsNode, "number", instanceNode,
            Len(instanceNode.children) >= minItemsNode.nval)

maxLengthHandler(maxLengthNode, instanceNode, schemaNode, reg, depth) ==
  Assertion("string", maxLengthNode, "number", instanceNode,
            CodePoints(instanceNode.sval) <= maxLengthNode.nval)

minLengthHandler(minLengthNode, instanceNode, schemaNode, reg, depth) ==
  Assertion("string", minLengthNode, "number", instanceNode,
            CodePoints(instanceNode.sval) >= minLengthNode.nval)

maxPropertiesHandler(maxPropertiesNode, instanceNode, schemaNode, reg, depth) ==
  Assertion("object", maxPropertiesNode, "number", instanceNode,
            Len(instanceNode.children) <= maxPropertiesNode.nval)

minPropertiesHandler(minPropertiesNode, instanceNode, schemaNode, reg, depth) ==
  Assertion("object", minPropertiesNode, "number", instanceNode,
            Len(instanceNode.children) >= minPropertiesNode.nval)

maximumHandler(maximumNode, instanceNode, schemaNode, reg, depth) ==
  Assertion("number", maximumNode, "number", instanceNode,
            instanceNode.nval <= maximumNode.nval)

minimumHandler(minimumNode, instanceNode, schemaNode, reg, depth) ==
  Assertion("number", minimumNode, "number", instanceNode,
            instanceNode.nval >= minimumNode.nval)

\* numberEqual(0, remainder) || numberEqual(multipleOf, remainder), on integers;
\* a remainder by 0 is NaN, which equals nothing
multipleOfHandler(multipleOfNode, instanceNode, schemaNode, reg, depth) ==
  Assertion("number", multipleOfNode, "number", instanceNode,
            /\ multipleOfNode.nval # 0
            /\ \/ JsRemainder(instanceNode.nval, multipleOfNode.nval) = 0
               \/ JsRemainder(instanceNode.nval, multipleOfNode.nval) = multipleOfNode.nval)

patternHandler(patternNode, instanceNode, schemaNode, reg, depth) ==
  Assertion("string", patternNode, "string", instanceNode,
            RegExpTest(patternNode.sval, instanceNode.sval))

\* requiredHandler that looks at the first listed key only
requiredHandlerFirstKey(requiredNode, instanceNode, schemaNode, reg, depth) ==
  IF instanceNode.jsonType # "object" THEN Pass
  ELSE IF requiredNode.jsonType # "array" THEN Throw("InvalidSchema")
  ELSE IF Len(requiredNode.children) = 0 THEN Pass
  ELSE IF requiredNode.children[1].jsonType # "string" THEN Throw("InvalidSchema")
  ELSE Returned(jsonObjectHas(requiredNode.children[1].sval, instanceNode), <<>>)

requiredHandler(requiredNode, instanceNode, schemaNode, reg, depth) ==
  IF instanceNode.jsonType # "object" THEN Pass
  ELSE IF requiredNode.jsonType # "array" THEN Throw("InvalidSchema")
  ELSE
    LET required(requiredPropertyNode) ==
          IF requiredPropertyNode.jsonType # "string" THEN "throw"
          ELSE IF jsonObjectHas(requiredPropertyNode.sval, instanceNode) THEN "go"
          ELSE "stop"
        outcome == FirstStop([k \in 1..Len(requiredNode.children) |->
                                required(requiredNode.children[k])])
    IN IF outcome = "throw" THEN Throw("InvalidSchema") ELSE Returned(outcome = "go", <<>>)

\* numbers are integers in the model, so Number.isInteger holds of each
isTypeOf(instance, type) ==
  IF type = "integer" THEN instance.jsonType = "number" ELSE instance.jsonType = type

typeHandler(typeNode, instanceNode, schemaNode, reg, depth) ==
  IF typeNode.jsonType = "string"
  THEN Returned(isTypeOf(instanceNode, typeNode.sval), <<>>)
  ELSE IF typeNode.jsonType = "array"
  THEN LET item(itemNode) ==
             IF itemNode.jsonType # "string" THEN "throw"
             ELSE IF isTypeOf(instanceNode, itemNode.sval) THEN "stop"
             ELSE "go"
           outcome == FirstStop([k \in 1..Len(typeNode.children) |->
                                   item(typeNode.children[k])])
       IN IF outcome = "throw" THEN Throw("InvalidSchema")
          ELSE Returned(outcome = "stop", <<>>)
  ELSE Throw("InvalidSchema")

uniqueItemsHandler(uniqueItemsNode, instanceNode, schemaNode, reg, depth) ==
  IF instanceNode.jsonType # "array" THEN Pass
  ELSE IF uniqueItemsNode.jsonType # "boolean" THEN Throw("InvalidSchema")
  ELSE IF ~uniqueItemsNode.bval THEN Pass
  ELSE Returned(\A i, j \in 1..Len(instanceNode.children) :
                  i # j => ~CanonicalEqual(instanceNode.children[i],
                                           instanceNode.children[j]), <<>>)

\* idNode.location.endsWith("#/$id")
idHandler(idNode, instanceNode, schemaNode, reg, depth) ==
  IF idNode.location.ptr # <<"$id">> THEN Throw("UnsupportedFeature") ELSE Pass

\* unsupportedHandler ignoring the keyword, as an unknown keyword is
unsupportedHandlerIgnores(keywordNode, instanceNode, schemaNode, reg, depth) == Pass

\* $anchor, $dynamicAnchor, $dynamicRef, unevaluatedProperties, unevaluatedItems
unsupportedHandler(keywordNode, instanceNode, schemaNode, reg, depth) ==
  Throw("UnsupportedFeature")

UnsupportedKeywords ==
  {"$anchor", "$dynamicAnchor", "$dynamicRef", "unevaluatedProperties", "unevaluatedItems"}

\* a Map keywordHandlers with an entry for `title` too
KeywordsWithTitle ==
  {"$ref", "additionalProperties", "allOf", "anyOf", "oneOf", "not", "contains",
   "dependentSchemas", "then", "else", "items", "patternProperties", "prefixItems",
   "properties", "propertyNames", "const", "dependentRequired", "enum",
   "exclusiveMaximum", "exclusiveMinimum", "maxItems", "minItems", "maxLength",
   "minLength", "maxProperties", "minProperties", "maximum", "minimum", "multipleOf",
   "pattern", "required", "type", "uniqueItems", "$id", "title"} \cup UnsupportedKeywords

\* the keys of the Map keywordHandlers
Keywords ==
  {"$ref", "additionalProperties", "allOf", "anyOf", "oneOf", "not", "contains",
   "dependentSchemas", "then", "else", "items", "patternProperties", "prefixItems",
   "properties", "propertyNames", "const", "dependentRequired", "enum",
   "exclusiveMaximum", "exclusiveMinimum", "maxItems", "minItems", "maxLength",
   "minLength", "maxProperties", "minProperties", "maximum", "minimum", "multipleOf",
   "pattern", "required", "type", "uniqueItems", "$id"} \cup UnsupportedKeywords

\* keywordHandlers.get(keyword)(keywordNode, instanceNode, schemaNode, errors)
keywordHandlers(keyword, n, i, s, reg, depth) ==
  CASE keyword = "$ref" -> refHandler(n, i, s, reg, depth)
    [] keyword = "additionalProperties" -> additionalPropertiesHandler(n, i, s, reg, depth)
    [] keyword = "allOf" -> allOfHandler(n, i, s, reg, depth)
    [] keyword = "anyOf" -> anyOfHandler(n, i, s, reg, depth)
    [] keyword = "oneOf" -> oneOfHandler(n, i, s, reg, depth)
    [] keyword = "not" -> notHandler(n, i, s, reg, depth)
    [] keyword = "contains" -> containsHandler(n, i, s, reg, depth)
    [] keyword = "dependentSchemas" -> dependentSchemasHandler(n, i, s, reg, depth)
    [] keyword = "then" -> thenHandler(n, i, s, reg, depth)
    [] keyword = "else" -> elseHandler(n, i, s, reg, depth)
    [] keyword = "items" -> itemsHandler(n, i, s, reg, depth)
    [] keyword = "patternProperties" -> patternPropertiesHandler(n, i, s, reg, depth)
    [] keyword = "prefixItems" -> prefixItemsHandler(n, i, s, reg, depth)
    [] keyword = "properties" -> propertiesHandler(n, i, s, reg, depth)
    [] keyword = "propertyNames" -> propertyNamesHandler(n, i, s, reg, depth)
    [] keyword = "const" -> constHandler(n, i, s, reg, depth)
    [] keyword = "dependentRequired" -> dependentRequiredHandler(n, i, s, reg, depth)
    [] keyword = "enum" -> enumHandler(n, i, s, reg, depth)
    [] keyword = "exclusiveMaximum" -> exclusiveMaximumHandler(n, i, s, reg, depth)
    [] keyword = "exclusiveMinimum" -> exclusiveMinimumHandler(n, i, s, reg, depth)
    [] keyword = "maxItems" -> maxItemsHandler(n, i, s, reg, depth)
    [] keyword = "minItems" -> minItemsHandler(n, i, s, reg, depth)
    [] keyword = "maxLength" -> maxLengthHandler(n, i, s, reg, depth)
    [] keyword = "minLength" -> minLengthHandler(n, i, s, reg, depth)
    [] keyword = "maxProperties" -> maxPropertiesHandler(n, i, s, reg, depth)
    [] keyword = "minProperties" -> minPropertiesHandler(n, i, s, reg, depth)
    [] keyword = "maximum" -> maximumHandler(n, i, s, reg, depth)
    [] keyword = "minimum" -> minimumHandler(n, i, s, reg, depth)
    [] keyword = "multipleOf" -> multipleOfHandler(n, i, s, reg, depth)
    [] keyword = "pattern" -> patternHandler(n, i, s, reg, depth)
    [] keyword = "required" -> requiredHandler(n, i, s, reg, depth)
    [] keyword = "type" -> typeHandler(n, i, s, reg, depth)
    [] keyword = "uniqueItems" -> uniqueItemsHandler(n, i, s, reg, depth)
    [] keyword = "$id" -> idHandler(n, i, s, reg, depth)
    [] OTHER -> unsupportedHandler(n, i, s, reg, depth)

\* Dispatch with the handler's buffer pushed before the unit of the keyword
DispatchBufferFirst(schemaNode, instanceNode, p, h) ==
  LET keywordNode == schemaNode.children[p].children[1]
      keywordValueNode == schemaNode.children[p].children[2]
      frame == Frame(schemaNode, instanceNode, keywordNode.sval, p, h.ok)
  IN IF h.ok THEN <<>>
     ELSE Under(frame, h.errors)
          \o << OutputUnit(keywordValueNode.location, instanceNode.location, <<frame>>) >>

\* Dispatch with the handler's buffer pushed whatever the handler returned
DispatchAlways(schemaNode, instanceNode, p, h) ==
  LET keywordNode == schemaNode.children[p].children[1]
      keywordValueNode == schemaNode.children[p].children[2]
      frame == Frame(schemaNode, instanceNode, keywordNode.sval, p, h.ok)
  IN (IF h.ok THEN <<>>
      ELSE << OutputUnit(keywordValueNode.location, instanceNode.location, <<frame>>) >>)
     \o Under(frame, h.errors)

\* what one keyword of an object schema contributes to the caller's errors:
\* nothing when its handler returned true, else the unit of the keyword
\* followed by the handler's buffer
Dispatch(schemaNode, instanceNode, p, h) ==
  LET keywordNode == schemaNode.children[p].children[1]
      keywordValueNode == schemaNode.children[p].children[2]
      frame == Frame(schemaNode, instanceNode, keywordNode.sval, p, h.ok)
  IN IF h.ok THEN <<>>
     ELSE << OutputUnit(keywordValueNode.location, instanceNode.location, <<frame>>) >>
          \o Under(frame, h.errors)

\* the boolean case with `false` pushing its unit twice
BooleanSchemaTwice(schemaNode, instanceNode) ==
  Returned(schemaNode.bval,
    IF ~schemaNode.bval
    THEN << OutputUnit(schemaNode.location, instanceNode.location,
              << Frame(schemaNode, instanceNode, "", 0, FALSE) >>),
            OutputUnit(schemaNode.location, instanceNode.location,
              << Frame(schemaNode, instanceNode, "", 0, FALSE) >>) >>
    ELSE <<>>)

\* the boolean case with `false` returning without a push
BooleanSchemaSilent(schemaNode, instanceNode) ==
  Returned(schemaNode.bval, <<>>)

\* a boolean schema: `true` accepts; `false` rejects and pushes one unit, with
\* the location of the schema node and the location of the instance node
BooleanSchema(schemaNode, instanceNode) ==
  Returned(schemaNode.bval,
    IF ~schemaNode.bval
    THEN << OutputUnit(schemaNode.location, instanceNode.location,
              << Frame(schemaNode, instanceNode, "", 0, FALSE) >>) >>
    ELSE <<>>)

validateSchema(schemaNode, instanceNode, reg, depth) ==
  IF depth > MaxDepth THEN Throw("RangeError")
  ELSE IF schemaNode.type = "json" /\ schemaNode.jsonType = "boolean"
  THEN BooleanSchema(schemaNode, instanceNode)
  ELSE IF schemaNode.type = "json" /\ schemaNode.jsonType = "object"
  THEN
    LET n == Len(schemaNode.children)
        handled(p) == schemaNode.children[p].children[1].sval \in Keywords
        hs == [p \in 1..n |->
                 IF handled(p)
                 THEN keywordHandlers(schemaNode.children[p].children[1].sval,
                                      schemaNode.children[p].children[2],
                                      instanceNode, schemaNode, reg, depth + 1)
                 ELSE Pass]
    IN IF FirstThrown(hs) # "" THEN Throw(FirstThrown(hs))
       ELSE Returned(\A p \in 1..n : hs[p].ok,
                     Flatten([p \in 1..n |-> Dispatch(schemaNode, instanceNode, p, hs[p])]))
  ELSE Throw("InvalidSchema")


(***************************************************************************)
(* The public API: registerSchema and validate (index.js:36-59, 100-106).  *)
(***************************************************************************)
\* the URIs schemas are registered under in the model
Uris == {"", "urn:u1", "urn:u2"}

EmptyRegistry == [u \in Uris |-> NoNode]

\* an Output, or the error validate raised.  hasErrors tells whether the
\* Output has an errors field
ReturnOutput(valid, hasErrors, errors) ==
  [kind |-> "return", valid |-> valid, hasErrors |-> hasErrors, errors |-> errors,
   error |-> ""]
Raise(error) ==
  [kind |-> "raise", valid |-> FALSE, hasErrors |-> FALSE, errors |-> <<>>, error |-> error]
NoOutcome ==
  [kind |-> "none", valid |-> FALSE, hasErrors |-> FALSE, errors |-> <<>>, error |-> ""]

\* the OutputUnit[] of the source: the units without their history
Units(errors) ==
  [i \in 1..Len(errors) |->
     [absoluteKeywordLocation |-> errors[i].absoluteKeywordLocation,
      instanceLocation |-> errors[i].instanceLocation]]

Dialect == "https://json-schema.org/draft/2020-12/schema"

\* registerSchema that leaves an entry already in the Map as it is
registerSchemaKeepExisting(reg, schema, uri) ==
  IF ~ValidJson(schema) THEN [registry |-> reg, thrown |-> "InvalidJson"]
  ELSE IF reg[uri] # NoNode THEN [registry |-> reg, thrown |-> ""]
  ELSE [registry |-> [reg EXCEPT ![uri] = toJsonNode(schema, uri)], thrown |-> ""]

\* registerSchema that also sets the entry of the default URI ""
registerSchemaAlsoDefault(reg, schema, uri) ==
  IF ValidJson(schema)
  THEN [registry |-> [reg EXCEPT ![uri] = toJsonNode(schema, uri),
                                 ![""] = toJsonNode(schema, "")],
        thrown |-> ""]
  ELSE [registry |-> reg, thrown |-> "InvalidJson"]

\* schemaRegistry.set(uri, toJsonNode(schema, uri)); toJsonNode throws on a
\* value that is no JSON, before the Map is touched
registerSchema(reg, schema, uri) ==
  IF ValidJson(schema)
  THEN [registry |-> [reg EXCEPT ![uri] = toJsonNode(schema, uri)], thrown |-> ""]
  ELSE [registry |-> reg, thrown |-> "InvalidJson"]

\* typeof schema === "object" && schema !== null && !Array.isArray(schema)
\*   && typeof schema.$id === "string" ? schema.$id : ""
SchemaUri(schema) ==
  IF /\ schema.jsonType = "object"
     /\ \E i \in 1..Len(schema.members) :
          schema.members[i].sval = "$id" /\ schema.members[i].members[1].jsonType = "string"
  THEN schema.members[CHOOSE i \in 1..Len(schema.members) :
                        schema.members[i].sval = "$id"].members[1].sval
  ELSE ""

\* validate ending with schemaRegistry.clear() in place of delete(uri)
validateClears(reg, schema, instance) ==
  LET uri == SchemaUri(schema)
      registered == registerSchema(reg, schema, uri)
      schemaNode == registered.registry[uri]
      unsupportedDialect ==
        /\ schemaNode.jsonType = "object"
        /\ jsonObjectHas("$schema", schemaNode)
        /\ jsonPointerStep("$schema", schemaNode).jsonType = "string"
        /\ jsonPointerStep("$schema", schemaNode).sval # Dialect
      r == validateSchema(schemaNode, toJsonNode(instance, ""), registered.registry, 1)
      ended(registry, outcome, recursion) ==
        [registry |-> registry, outcome |-> outcome, during |-> registered.registry,
         recursion |-> recursion]
  IN IF registered.thrown # ""
     THEN ended(reg, Raise(registered.thrown), Throw(registered.thrown))
     ELSE IF unsupportedDialect
     THEN ended(registered.registry, Raise("UnsupportedDialect"), Throw("UnsupportedDialect"))
     ELSE IF ~ValidJson(instance)
     THEN ended(registered.registry, Raise("InvalidJson"), Throw("InvalidJson"))
     ELSE IF r.thrown # ""
     THEN ended(registered.registry, Raise(r.thrown), r)
     ELSE ended(EmptyRegistry,
                IF r.ok THEN ReturnOutput(TRUE, FALSE, <<>>)
                ELSE ReturnOutput(FALSE, TRUE, Units(r.errors)),
                r)

\* validate with `return { valid, errors }` whatever valid is
validateAlwaysErrors(reg, schema, instance) ==
  LET uri == SchemaUri(schema)
      registered == registerSchema(reg, schema, uri)
      schemaNode == registered.registry[uri]
      r == validateSchema(schemaNode, toJsonNode(instance, ""), registered.registry, 1)
      ended(registry, outcome, recursion) ==
        [registry |-> registry, outcome |-> outcome, during |-> registered.registry,
         recursion |-> recursion]
  IN IF registered.thrown # ""
     THEN ended(reg, Raise(registered.thrown), Throw(registered.thrown))
     ELSE IF ~ValidJson(instance)
     THEN ended(registered.registry, Raise("InvalidJson"), Throw("InvalidJson"))
     ELSE IF r.thrown # ""
     THEN ended(registered.registry, Raise(r.thrown), r)
     ELSE ended([registered.registry EXCEPT ![uri] = NoNode],
                ReturnOutput(r.ok, TRUE, Units(r.errors)), r)

\* validate(schema, instance): the registry it leaves, its outcome, and (history)
\* the registry the recursion ran under and what the recursion returned
validate(reg, schema, instance) ==
  LET uri == SchemaUri(schema)
      registered == registerSchema(reg, schema, uri)
      schemaNode == registered.registry[uri]
      unsupportedDialect ==
        /\ schemaNode.jsonType = "object"
        /\ jsonObjectHas("$schema", schemaNode)
        /\ jsonPointerStep("$schema", schemaNode).jsonType = "string"
        /\ jsonPointerStep("$schema", schemaNode).sval # Dialect
      r == validateSchema(schemaNode, toJsonNode(instance, ""), registered.registry, 1)
      ended(registry, outcome, recursion) ==
        [registry |-> registry, outcome |-> outcome, during |-> registered.registry,
         recursion |-> recursion]
  IN IF registered.thrown # ""
     THEN ended(reg, Raise(registered.thrown), Throw(registered.thrown))
     ELSE IF unsupportedDialect
     THEN ended(registered.registry, Raise("UnsupportedDialect"), Throw("UnsupportedDialect"))
     ELSE IF ~ValidJson(instance)
     THEN ended(registered.registry, Raise("InvalidJson"), Throw("InvalidJson"))
     ELSE IF r.thrown # ""
     THEN ended(registered.registry, Raise(r.thrown), r)
     ELSE ended([registered.registry EXCEPT ![uri] = NoNode],
                IF r.ok THEN ReturnOutput(TRUE, FALSE, <<>>)
                ELSE ReturnOutput(FALSE, TRUE, Units(r.errors)),
                r)


(***************************************************************************)
(* The inputs of the model.                                                *)
(***************************************************************************)
Obj1(k, v) == JObj(<<M(k, v)>>)
Obj2(k1, v1, k2, v2) == JObj(<<M(k1, v1), M(k2, v2)>>)
Obj3(k1, v1, k2, v2, k3, v3) == JObj(<<M(k1, v1), M(k2, v2), M(k3, v3)>>)

TypeString == Obj1("type", JStr("string"))
TypeNumber == Obj1("type", JStr("number"))

\* subschemas that evaluate without raising
GoodLeaves ==
  { JTrue, JFalse, TypeString, TypeNumber,
    Obj2("type", JStr("number"), "minimum", JNum(5)),
    Obj1("required", JArr(<<JStr("foo"), JStr("bar")>>)),
    Obj1("title", JStr("foo")),
    Obj2("title", JNum(3), "maxLength", JNum(2)),
    JObj(<<>>) }

\* subschemas whose evaluation raises a schema error
BadLeaves ==
  { JNum(5), JStr("foo"), JNull,
    Obj1("type", JNum(5)),
    Obj1("allOf", JTrue),
    Obj1("$ref", JStr("urn:u2")),
    Obj1("$ref", JStr("#/$defs/missing")) }

\* subschemas that use a feature the validator does not support
UnsupportedLeaves ==
  { Obj1(k, JStr("foo")) : k \in UnsupportedKeywords } \cup { Obj1("$id", JStr("urn:u2")) }

Leaves == GoodLeaves \cup BadLeaves \cup UnsupportedLeaves

\* sub as the subschema of one applicator keyword
Wrappers ==
  {"not", "allOf", "anyOf", "oneOf", "if", "then", "else", "properties",
   "patternProperties", "additionalProperties", "propertyNames", "dependentSchemas",
   "items", "prefixItems", "contains", "$ref", "after"}

Wrap(k, sub) ==
  CASE k = "not" -> Obj1("not", sub)
    [] k = "allOf" -> Obj1("allOf", JArr(<<sub, TypeNumber>>))
    [] k = "anyOf" -> Obj1("anyOf", JArr(<<sub, TypeNumber>>))
    [] k = "oneOf" -> Obj1("oneOf", JArr(<<TypeNumber, sub>>))
    [] k = "if" -> Obj3("if", sub, "then", TypeString, "else", TypeNumber)
    [] k = "then" -> Obj2("if", TypeNumber, "then", sub)
    [] k = "else" -> Obj2("else", sub, "if", TypeNumber)
    [] k = "properties" -> Obj1("properties", Obj2("foo", sub, "bar", TypeNumber))
    [] k = "patternProperties" -> Obj1("patternProperties", Obj2("^f", sub, "o", TypeNumber))
    [] k = "additionalProperties" ->
         Obj2("properties", Obj1("bar", JTrue), "additionalProperties", sub)
    [] k = "propertyNames" -> Obj1("propertyNames", sub)
    [] k = "dependentSchemas" -> Obj1("dependentSchemas", Obj1("foo", sub))
    [] k = "items" -> Obj1("items", sub)
    [] k = "prefixItems" -> Obj2("prefixItems", JArr(<<sub>>), "items", TypeString)
    [] k = "contains" -> Obj1("contains", sub)
    [] k = "$ref" -> Obj2("$ref", JStr("#/$defs/a"), "$defs", Obj1("a", sub))
    [] OTHER -> Obj2("minimum", JNum(5), "allOf", JArr(<<sub>>))

\* the applicators used at the second level of nesting
OuterWrappers == {"not", "anyOf", "properties", "items"}
InnerLeaves ==
  { JFalse, Obj2("type", JStr("number"), "minimum", JNum(5)),
    JNum(5), Obj1("$anchor", JStr("foo")) }

\* schemas that make sense at the root only
RootSchemas ==
  { Obj2("$schema", JStr(Dialect), "type", JStr("string")),
    Obj2("$schema", JStr("http://json-schema.org/draft-07/schema#"), "type", JStr("string")),
    Obj2("$schema", JNum(42), "type", JStr("string")),
    Obj2("type", JStr("string"), "$schema", JNull),
    Obj2("$id", JStr("urn:u1"), "type", JStr("string")),
    Obj3("$id", JStr("urn:u1"), "$ref", JStr("#/$defs/a"), "$defs", Obj1("a", TypeNumber)),
    Obj3("$id", JStr("urn:u1"), "$ref", JStr("urn:u1#/$defs/a"), "$defs", Obj1("a", JFalse)),
    Obj2("$id", JNum(5), "type", JStr("string")),
    Obj1("$ref", JStr("#")),
    Obj2("type", JStr("array"), "items", Obj1("$ref", JStr("#"))),
    Obj2("$defs", Obj1("a", Obj1("$anchor", JStr("foo"))), "type", JStr("string")),
    Obj2("properties", Obj2("foo", TypeString, "bar", Obj1("type", JStr("boolean"))),
         "required", JArr(<<JStr("foo"), JStr("bar")>>)),
    Obj2("allOf", JArr(<<Obj1("$ref", JStr("#/$defs/a")), Obj1("$ref", JStr("#/$defs/a"))>>),
         "$defs", Obj1("a", Obj2("type", JStr("string"), "maxLength", JNum(2)))),
    Obj3("anyOf", JArr(<<TypeString, TypeNumber>>), "title", JStr("foo"),
         "allOf", JArr(<<TypeString, Obj2("type", JStr("number"), "minimum", JNum(5))>>)),
    JUndefined }

EvalSchemas ==
  Leaves
  \cup { Wrap(k, l) : k \in Wrappers, l \in Leaves }
  \cup { Wrap(k2, Wrap(k1, l)) : k2 \in OuterWrappers, k1 \in Wrappers \ {"$ref"},
                                 l \in InnerLeaves }
  \cup RootSchemas

EvalInstances ==
  { JNull, JNum(3), JNum(7), JStr("foo"),
    JArr(<<>>), JArr(<<JNum(3), JStr("foo")>>), JArr(<<JStr("abc"), JNum(7), JNum(3)>>),
    JObj(<<>>), Obj2("foo", JStr("foo"), "bar", JNum(3)),
    Obj2("bar", JStr("abc"), "foo", JNum(7)), Obj2("^f", JNum(3), "a/b", JStr("foo")),
    Obj1("foo", Obj2("foo", JNum(3), "baz", JArr(<<JNum(3)>>))),
    JArr(<<JArr(<<JArr(<<JNum(3)>>)>>)>>),
    JUndefined }

\* the inputs of the runs of several calls
ApiSchemas ==
  { TypeString,
    Obj1("$ref", JStr("urn:u1")),
    Obj3("$id", JStr("urn:u1"), "$ref", JStr("#/$defs/a"), "$defs", Obj1("a", TypeNumber)),
    Obj1("$anchor", JStr("foo")) }

ApiInstances == { JNum(3), JStr("foo"), JUndefined }

RegisteredSchemas == { TypeNumber, JFalse, JUndefined }
RegisteredUris == { "", "urn:u1" }

\* a schema object with one more member, in front or at the end
With(schema, k, v, front) ==
  IF front THEN JObj(<<M(k, v)>> \o schema.members)
  ELSE JObj(Append(schema.members, M(k, v)))

\* the schema object without its member k
Strip(schema, k) ==
  LET other(member) == member.sval # k
  IN JObj(SelectSeq(schema.members, other))

\* keys without an entry in keywordHandlers, and values for them
UnhandledKeys == {"title", "x-unknown", "if", "minContains", "maxContains", "$schema"}
UnhandledValues == { JStr("foo"), JNum(0), JTrue, JNull }

\* schemas given one more member
ExtendedSchemas ==
  { TypeString, Obj1("then", JFalse), Obj1("contains", TypeNumber),
    Obj2("type", JStr("number"), "minimum", JNum(5)),
    Obj2("maxLength", JNum(2), "else", TypeNumber) }

\* if / then / else in their combinations and orders
ConditionSchemas == { TypeNumber, JTrue, JFalse, Obj1("minimum", JNum(5)) }
BranchSchemas ==
  { JFalse, TypeString, Obj2("type", JStr("number"), "minimum", JNum(5)) }
ConditionalSchemas ==
  { Obj3("if", a, "then", b, "else", c) :
      a \in ConditionSchemas, b \in BranchSchemas, c \in BranchSchemas }
  \cup { Obj2("then", b, "if", a) : a \in ConditionSchemas, b \in BranchSchemas }
  \cup { Obj2("else", c, "if", a) : a \in ConditionSchemas, c \in BranchSchemas }
  \cup { Obj2("then", b, "else", c) : b \in BranchSchemas, c \in BranchSchemas }
  \cup { Obj1("then", b) : b \in BranchSchemas }
  \cup { Obj1("else", c) : c \in BranchSchemas }
  \cup { Obj1("if", a) : a \in ConditionSchemas \cup {JNum(5)} }
  \cup { Obj2("if", a, "type", JStr("string")) : a \in ConditionSchemas \cup {JNum(5)} }

\* allOf / anyOf / oneOf over up to three members
MemberSchemas == { TypeNumber, TypeString, Obj1("minimum", JNum(5)), JFalse }
MemberLists ==
  {<<>>} \cup { <<a>> : a \in MemberSchemas }
  \cup { <<a, b>> : a \in MemberSchemas, b \in MemberSchemas \cup {JNum(5)} }
  \cup { <<a, b, c>> : a \in MemberSchemas, b \in MemberSchemas, c \in MemberSchemas }
CompositionSchemas ==
  { Obj1(k, JArr(members)) : k \in {"allOf", "anyOf", "oneOf"}, members \in MemberLists }

\* additionalProperties beside properties and patternProperties, in front of
\* them or behind
Members(k, values) == IF values = <<>> THEN <<>> ELSE <<M(k, JObj(values))>>
PropertiesMembers ==
  { <<>>, <<M("foo", JTrue)>>, <<M("^f", JTrue), M("a.b", JTrue)>> }
PatternPropertiesMembers ==
  { <<>>, <<M("^b", JTrue)>>, <<M("(b)\\1", JTrue)>>,
    <<M("(a)", JTrue), M("(b)\\1", JTrue)>> }
AdditionalSchemas ==
  { JObj(IF front
         THEN <<M("additionalProperties", a)>> \o Members("properties", ps)
              \o Members("patternProperties", qs)
         ELSE Members("properties", ps) \o Members("patternProperties", qs)
              \o <<M("additionalProperties", a)>>) :
      ps \in PropertiesMembers, qs \in PatternPropertiesMembers,
      a \in {JFalse, TypeNumber}, front \in BOOLEAN }

\* prefixItems of up to three members beside items, in front of it or behind
PrefixSchemas == { TypeNumber, JFalse }
PrefixLists ==
  {<<>>} \cup { <<a>> : a \in PrefixSchemas }
  \cup { <<a, b>> : a \in PrefixSchemas, b \in PrefixSchemas \cup {JNum(5)} }
  \cup { <<a, b, c>> : a \in PrefixSchemas, b \in PrefixSchemas, c \in PrefixSchemas }
ItemsSchemas ==
  { Obj1("items", i) : i \in {JFalse, TypeString} }
  \cup { Obj1("prefixItems", JArr(ps)) : ps \in PrefixLists }
  \cup { Obj2("prefixItems", JArr(ps), "items", i) :
           ps \in PrefixLists, i \in {JFalse, TypeString} }
  \cup { Obj2("items", i, "prefixItems", JArr(ps)) :
           ps \in PrefixLists, i \in {JFalse, TypeString} }

\* required and dependentRequired with none, one and several keys missing
KeyLists ==
  { <<>>, <<JStr("foo")>>, <<JStr("baz")>>, <<JStr("foo"), JStr("bar")>>,
    <<JStr("foo"), JStr("baz")>>, <<JStr("baz"), JStr("b")>>,
    <<JStr("baz"), JStr("foo"), JStr("a")>>, <<JStr("baz"), JNum(5)>> }
RequiredSchemas ==
  { Obj1("required", JArr(keys)) : keys \in KeyLists }
  \cup { Obj1("dependentRequired", JObj(<<>>)) }
  \cup { Obj1("dependentRequired", Obj1(k, JArr(keys))) :
           k \in {"foo", "baz"}, keys \in KeyLists }
  \cup { Obj1("dependentRequired", Obj2("foo", JArr(keys1), "bar", JArr(keys2))) :
           keys1 \in KeyLists, keys2 \in KeyLists }
  \cup { Obj1("items", Obj1("required", JArr(keys))) : keys \in KeyLists }

\* the inputs of the runs on single keywords
KeywordSchemas ==
  { With(s, k, v, front) : s \in ExtendedSchemas, k \in UnhandledKeys,
                           v \in UnhandledValues, front \in BOOLEAN }
  \cup ConditionalSchemas
  \cup CompositionSchemas
  \cup AdditionalSchemas
  \cup ItemsSchemas
  \cup RequiredSchemas

KeywordInstances ==
  { JNum(3), JNum(7), JStr("foo"), JArr(<<>>), JArr(<<JNum(3), JStr("foo")>>),
    JArr(<<JNum(3), JNum(7)>>), JArr(<<JStr("foo")>>),
    JArr(<<JNum(3), JStr("foo"), JNum(7), JStr("abc")>>),
    JObj(<<>>), Obj2("foo", JNum(3), "bar", JStr("abc")),
    Obj2("b", JNum(3), "bb", JStr("foo")),
    Obj3("^f", JNum(3), "f", JStr("foo"), "a.b", JNum(3)),
    Obj2("axb", JNum(3), "a", JStr("foo")),
    JArr(<<Obj1("foo", JNum(3)), JObj(<<>>)>>) }

(***************************************************************************)
(* The state machine.                                                      *)
(***************************************************************************)
CallRecord(op, schema, instance, uri, outcome, during, recursion) ==
  [op |-> op, schema |-> schema, instance |-> instance, uri |-> uri,
   outcome |-> outcome, during |-> during, recursion |-> recursion]

NoCall == CallRecord("none", JNull, JNull, "", NoOutcome, EmptyRegistry, Pass)
NoInput == [schema |-> JUndefined, instance |-> JUndefined, armed |-> FALSE]
NotRegistered == Raw("none", FALSE, 0, "", <<>>)

\* one call validate(schema, instance)
ValidateCall(schema, instance) ==
  LET v == validate(schemaRegistry, schema, instance)
  IN /\ schemaRegistry' = v.registry
     /\ last' = CallRecord("validate", schema, instance, SchemaUri(schema), v.outcome,
                           v.during, v.recursion)

\* one call registerSchema(schema, uri)
RegisterCall(schema, uri) ==
  LET r == registerSchema(schemaRegistry, schema, uri)
  IN /\ schemaRegistry' = r.registry
     /\ last' = CallRecord("registerSchema", schema, JNull, uri,
                           IF r.thrown # "" THEN Raise(r.thrown) ELSE NoOutcome,
                           r.registry, Pass)

Init ==
  /\ schemaRegistry = EmptyRegistry
  /\ pending = NoInput
  /\ last = NoCall
  /\ first = NoCall
  /\ preRegistered = [u \in Uris |-> NotRegistered]
  /\ overwritten = {}

\* runs of any number of calls, with the history of the registrations
Validate ==
  \E schema \in ApiSchemas, instance \in ApiInstances :
    /\ ValidateCall(schema, instance)
    /\ overwritten' = overwritten \cup {SchemaUri(schema)}
    /\ UNCHANGED <<pending, first, preRegistered>>

RegisterSchema ==
  \E schema \in RegisteredSchemas, uri \in RegisteredUris :
    /\ RegisterCall(schema, uri)
    /\ IF last'.outcome.kind # "raise"
       THEN /\ preRegistered' = [preRegistered EXCEPT ![uri] = schema]
            /\ overwritten' = overwritten \ {uri}
       ELSE UNCHANGED <<preRegistered, overwritten>>
    /\ UNCHANGED <<pending, first>>

Next == Validate \/ RegisterSchema

Spec == Init /\ [][Next]_vars

\* runs of any number of calls, with the history of the first validate call
ValidateAgain ==
  \E schema \in ApiSchemas, instance \in ApiInstances :
    /\ ValidateCall(schema, instance)
    /\ first' = IF first.op = "none" THEN last' ELSE first
    /\ UNCHANGED <<pending, preRegistered, overwritten>>

RegisterBetween ==
  \E schema \in RegisteredSchemas, uri \in RegisteredUris :
    /\ RegisterCall(schema, uri)
    /\ UNCHANGED <<pending, first, preRegistered, overwritten>>

NextCalls == ValidateAgain \/ RegisterBetween

SpecCalls == Init /\ [][NextCalls]_vars

\* runs of a single call: the inputs are drawn first, then validate is applied
InitEval ==
  /\ schemaRegistry = EmptyRegistry
  /\ pending \in [schema : EvalSchemas, instance : EvalInstances, armed : {TRUE}]
  /\ last = NoCall
  /\ first = NoCall
  /\ preRegistered = [u \in Uris |-> NotRegistered]
  /\ overwritten = {}

EvalValidate ==
  /\ pending.armed
  /\ ValidateCall(pending.schema, pending.instance)
  /\ pending' = NoInput
  /\ UNCHANGED <<first, preRegistered, overwritten>>

NextEval == EvalValidate

SpecEval == InitEval /\ [][NextEval]_vars

\* runs of a single call on the schemas of single keywords
InitKeywords ==
  /\ schemaRegistry = EmptyRegistry
  /\ pending \in [schema : KeywordSchemas, instance : KeywordInstances, armed : {TRUE}]
  /\ last = NoCall
  /\ first = NoCall
  /\ preRegistered = [u \in Uris |-> NotRegistered]
  /\ overwritten = {}

SpecKeywords == InitKeywords /\ [][NextEval]_vars


(***************************************************************************)
(* The claims.                                                             *)
(***************************************************************************)
\* the root nodes of the last validate call and the registry it ran under
LastSchemaNode == last.during[last.uri]
LastInstanceNode == toJsonNode(last.instance, "")
LastReturned == last.op = "validate" /\ last.recursion.thrown = ""

\* what the handler of the p-th keyword of the last call's root returns
LastHandled(p) == LastSchemaNode.children[p].children[1].sval \in Keywords
LastHandler(p) ==
  keywordHandlers(LastSchemaNode.children[p].children[1].sval,
                  LastSchemaNode.children[p].children[2],
                  LastInstanceNode, LastSchemaNode, last.during, 2)

\* C1: for each keyword of an object schema that has a handler, validateSchema
\* appends nothing when the handler returns true and, when it returns false,
\* the unit of the keyword (the location of the keyword's value node, the
\* location of the instance) followed by the units the handler buffered, in
\* the handler's order.
C1_KeywordUnitThenBuffer ==
  (LastReturned /\ LastSchemaNode.jsonType = "object") =>
    Units(last.recursion.errors) =
      Flatten([p \in 1..Len(LastSchemaNode.children) |->
        IF ~LastHandled(p) \/ LastHandler(p).ok THEN <<>>
        ELSE << [absoluteKeywordLocation |->
                   LastSchemaNode.children[p].children[2].location,
                 instanceLocation |-> LastInstanceNode.location] >>
             \o Units(LastHandler(p).errors)])

\* a call whose root has a keyword that passed with a non-empty buffer and a
\* keyword that failed with more than one buffered unit
C1_Witness ==
  /\ LastReturned /\ LastSchemaNode.jsonType = "object"
  /\ \E p, q \in 1..Len(LastSchemaNode.children) :
       /\ LastHandled(p) /\ LastHandled(q)
       /\ LastHandler(p).ok /\ Len(LastHandler(p).errors) > 0
       /\ ~LastHandler(q).ok /\ Len(LastHandler(q).errors) > 1

\* the units of the last call, with their origins
LastErrors == last.recursion.errors

IsPrefix(a, b) == Len(a) <= Len(b) /\ SubSeq(b, 1, Len(a)) = a

\* the first position at which two origins differ (0 if one is a prefix)
Divergence(a, b) ==
  IF \E k \in 1..Len(a) : k <= Len(b) /\ a[k] # b[k]
  THEN CHOOSE k \in 1..Len(a) :
         /\ k <= Len(b) /\ a[k] # b[k]
         /\ \A j \in 1..(k - 1) : a[j] = b[j]
  ELSE 0

\* C2 as written: in the errors of one validate call the unit of an outer
\* keyword comes before every child error produced under it, and every error
\* belonging to an earlier sibling keyword of a schema object comes before
\* every error belonging to a later sibling keyword of that schema object.
C2_DocumentOrder ==
  LastReturned =>
    \A i, j \in 1..Len(LastErrors) :
      i < j =>
        /\ ~(IsPrefix(LastErrors[j].origin, LastErrors[i].origin)
             /\ LastErrors[j].origin # LastErrors[i].origin)
        /\ \A k \in 1..Len(LastErrors[i].origin), l \in 1..Len(LastErrors[j].origin) :
             (/\ LastErrors[i].origin[k].schema = LastErrors[j].origin[l].schema
              /\ LastErrors[i].origin[k].keyword # ""
              /\ LastErrors[j].origin[l].keyword # "")
             => LastErrors[i].origin[k].index <= LastErrors[j].origin[l].index

\* C2, amended: the order is that of evaluation.  The unit of an outer keyword
\* comes before every child error produced under it, and within one
\* application of a schema object to one instance node every error of an
\* earlier sibling keyword comes before every error of a later one.
C2_EvaluationOrder ==
  LastReturned =>
    \A i, j \in 1..Len(LastErrors) :
      i < j =>
        LET a == LastErrors[i].origin
            b == LastErrors[j].origin
            d == Divergence(a, b)
        IN /\ ~(IsPrefix(b, a) /\ a # b)
           /\ (/\ d > 0
               /\ a[d].schema = b[d].schema
               /\ a[d].instance = b[d].instance) => a[d].index < b[d].index

\* a call with errors of two sibling keywords of one application, each with
\* child errors
C2_Witness ==
  /\ LastReturned
  /\ \E i, j \in 1..Len(LastErrors) :
       LET a == LastErrors[i].origin
           b == LastErrors[j].origin
       IN /\ i < j /\ Len(a) > 1 /\ Len(b) > 1
          /\ Divergence(a, b) > 0
          /\ a[Divergence(a, b)].schema = b[Divergence(a, b)].schema
          /\ a[Divergence(a, b)].instance = b[Divergence(a, b)].instance

\* the location of the `if` beside a keyword of the schema object at location
SiblingIf(location) == Loc(location.base, Append(location.ptr, "if"))

\* C3: the errors of a validate call hold no unit produced while evaluating an
\* `if` subschema (from `then` or `else`) or a `not` subschema, and no unit
\* produced inside a keyword whose handler returned true.
C3_NoDecisionLeak ==
  LastReturned =>
    \A i \in 1..Len(LastErrors) :
      LET o == LastErrors[i].origin
      IN \A k \in 1..Len(o) :
           /\ ~o[k].pass
           /\ (o[k].keyword = "not") => k = Len(o)
           /\ (o[k].keyword \in {"then", "else"} /\ k < Len(o))
                => o[k + 1].schema # SiblingIf(o[k].schema)

\* a failing call whose root has `else` and an `if` that rejected the instance
\* with at least one unit
C3_Witness ==
  /\ LastReturned /\ ~last.recursion.ok
  /\ jsonObjectHas("if", LastSchemaNode) /\ jsonObjectHas("else", LastSchemaNode)
  /\ LET r == validateSchema(jsonPointerStep("if", LastSchemaNode), LastInstanceNode,
                             last.during, 2)
     IN r.thrown = "" /\ ~r.ok /\ Len(r.errors) > 0
  /\ \E i \in 1..Len(LastErrors) : LastErrors[i].origin[1].keyword = "else"

\* C4: when validate returns, the result is {valid: true} without an errors
\* field exactly when the top-level recursion returned true, and otherwise
\* {valid: false, errors} with errors non-empty.
C4_OutputShape ==
  (last.op = "validate" /\ last.outcome.kind = "return") =>
    LET r == validateSchema(LastSchemaNode, LastInstanceNode, last.during, 1)
    IN /\ last.outcome.valid <=> r.ok
       /\ last.outcome.valid => ~last.outcome.hasErrors
       /\ ~last.outcome.valid =>
            last.outcome.hasErrors /\ Len(last.outcome.errors) > 0

\* a call that returned valid and one that returned invalid with one unit only
\* (a oneOf with two matches: the keyword unit and no child error)
C4_Witness ==
  /\ last.op = "validate" /\ last.outcome.kind = "return"
  /\ ~last.outcome.valid /\ Len(last.outcome.errors) = 1
  /\ jsonObjectHas("oneOf", LastSchemaNode)


\* C5 as written: when a validate call has ended, by returning or by raising,
\* the registry holds no entry that the call inserted (the tree of its schema
\* under the URI it computed).
C5_EntryRemoved ==
  (last.op = "validate" /\ ValidJson(last.schema)) =>
    schemaRegistry[last.uri] # toJsonNode(last.schema, last.uri)

\* C6 as written: a schema given to registerSchema(schema, u) stays what u maps
\* to, whatever validate calls follow, until another registerSchema(_, u).
C6_PersistsUntilRegistered ==
  \A u \in Uris :
    preRegistered[u] # NotRegistered =>
      schemaRegistry[u] = toJsonNode(preRegistered[u], u)

\* C6, amended: a schema given to registerSchema(schema, u) stays what u maps
\* to until another registerSchema(_, u) or a validate call whose computed URI
\* is u; validate calls computing another URI and registerSchema calls on
\* other URIs leave it.
C6_PersistsUntilOverwritten ==
  \A u \in Uris :
    (preRegistered[u] # NotRegistered /\ u \notin overwritten) =>
      schemaRegistry[u] = toJsonNode(preRegistered[u], u)

\* a validate call with another computed URI has just resolved a `$ref` to a
\* pre-registered URI and returned
C6_Witness ==
  /\ preRegistered["urn:u1"] # NotRegistered /\ "urn:u1" \notin overwritten
  /\ last.op = "validate" /\ last.uri = ""
  /\ last.schema = Obj1("$ref", JStr("urn:u1"))
  /\ last.outcome.kind = "return"

\* the string values of the members named `$ref` of a schema
RECURSIVE Refs(_)
Refs(raw) ==
  (IF raw.jsonType = "member" /\ raw.sval = "$ref" /\ raw.members[1].jsonType = "string"
   THEN {raw.members[1].sval} ELSE {})
  \cup UNION { Refs(raw.members[i]) : i \in 1..Len(raw.members) }

\* every `$ref` of the schema resolves within the schema's own URI
SelfContained(schema) ==
  \A ref \in Refs(schema) : IriParts(ref).base \in {"", SchemaUri(schema)}

\* C7 as written: two validate calls with equal (schema, instance) produce
\* equal outcomes, wherever they occur in a sequence of validate and
\* registerSchema calls.
C7_Deterministic ==
  (/\ first.op = "validate" /\ last.op = "validate"
   /\ first.schema = last.schema /\ first.instance = last.instance)
  => first.outcome = last.outcome

\* C7, amended: two validate calls with equal (schema, instance) produce equal
\* outcomes wherever they occur, provided every `$ref` of the schema resolves
\* within the schema's own URI; the outcome of a schema that refers to another
\* registered URI depends on what the registry holds under it at the call.
C7_DeterministicSelfContained ==
  (/\ first.op = "validate" /\ last.op = "validate"
   /\ first.schema = last.schema /\ first.instance = last.instance
   /\ SelfContained(last.schema))
  => first.outcome = last.outcome

\* the same self-contained call with a `$ref` made twice and returning, the
\* registry not being the same at the two calls
C7_Witness ==
  /\ first.op = "validate" /\ last.op = "validate"
  /\ first.schema = last.schema /\ first.instance = last.instance
  /\ SelfContained(last.schema) /\ Refs(last.schema) # {}
  /\ first.outcome.kind = "return"
  /\ first.during # last.during

\* whether the subschema sub of Wrap(k, sub) is applied to some node of the
\* instance
Applies(k, instance) ==
  LET keys == {instance.members[i].sval : i \in 1..Len(instance.members)}
  IN CASE k \in {"not", "allOf", "anyOf", "oneOf", "if", "$ref", "after"} -> TRUE
       [] k = "then" -> instance.jsonType = "number"
       [] k = "else" -> instance.jsonType # "number"
       [] k \in {"properties", "dependentSchemas"} ->
            instance.jsonType = "object" /\ "foo" \in keys
       [] k = "patternProperties" ->
            instance.jsonType = "object" /\ \E key \in keys : RegExpTest("^f", key)
       [] k = "additionalProperties" ->
            instance.jsonType = "object" /\ keys \ {"bar"} # {}
       [] k = "propertyNames" -> instance.jsonType = "object" /\ keys # {}
       [] OTHER -> instance.jsonType = "array" /\ Len(instance.members) > 0

\* applicators that apply their subschema to the instance itself
SameInstance == {"not", "allOf", "anyOf", "oneOf", "if", "after"}

\* the last call's schema holds sub where evaluation reaches it
Reaches(sub) ==
  \/ last.schema = sub
  \/ \E k \in Wrappers : last.schema = Wrap(k, sub) /\ Applies(k, last.instance)
  \/ \E k2 \in {"not", "anyOf"}, k1 \in SameInstance : last.schema = Wrap(k2, Wrap(k1, sub))

\* C8: a schema error met during evaluation (a schema node that is neither
\* boolean nor object, a keyword value of the wrong shape, a `$ref` that does
\* not resolve) makes validate raise, also when the offending subschema is
\* evaluated inside not, if, anyOf, oneOf or contains.
C8_SchemaErrorsRaise ==
  (last.op = "validate" /\ ValidJson(last.instance)) =>
    \A bad \in BadLeaves :
      Reaches(bad) =>
        /\ last.outcome.kind = "raise"
        /\ last.outcome.error \in {"InvalidSchema", "InvalidReference"}

\* a malformed subschema under `not` under `anyOf`, and the call raised
C8_Witness ==
  /\ last.op = "validate"
  /\ last.schema = Wrap("anyOf", Wrap("not", JNum(5)))
  /\ last.outcome.kind = "raise" /\ last.outcome.error = "InvalidSchema"

\* C9 as written: a root `$schema` with any value other than the 2020-12
\* meta-schema URI makes validate raise UnsupportedDialect.
C9_OtherDialectRaises ==
  (/\ last.op = "validate"
   /\ last.schema.jsonType = "object"
   /\ \E i \in 1..Len(last.schema.members) :
        /\ last.schema.members[i].sval = "$schema"
        /\ last.schema.members[i].members[1] # JStr(Dialect))
  => (last.outcome.kind = "raise" /\ last.outcome.error = "UnsupportedDialect")

\* an unsupported keyword, or a `$id` below the root, occurs as a keyword of
\* some subschema of the last call's schema
OccursUnsupported ==
  \/ \E u \in UnsupportedLeaves \ {Obj1("$id", JStr("urn:u2"))} : last.schema = u
  \/ \E u \in UnsupportedLeaves, k \in Wrappers : last.schema = Wrap(k, u)
  \/ \E u \in UnsupportedLeaves, k2 \in OuterWrappers, k1 \in Wrappers :
       last.schema = Wrap(k2, Wrap(k1, u))

\* C10 as written: a schema in which an unsupported keyword (or a non-root
\* `$id`) occurs makes validate raise UnsupportedFeature, for every instance.
C10_OccurrenceRaises ==
  (last.op = "validate" /\ ValidJson(last.instance) /\ OccursUnsupported) =>
    (last.outcome.kind = "raise" /\ last.outcome.error = "UnsupportedFeature")

\* C10, amended: validate raises UnsupportedFeature when evaluation reaches the
\* keyword, that is when the subschema holding it is applied to a node of the
\* instance; a subschema that is never applied is not looked at.
C10_ReachedRaises ==
  (last.op = "validate" /\ ValidJson(last.instance)) =>
    \A u \in UnsupportedLeaves :
      (Reaches(u) /\ last.schema # Obj1("$id", JStr("urn:u2"))) =>
        (last.outcome.kind = "raise" /\ last.outcome.error = "UnsupportedFeature")

\* a `$id` below the root, reached through `properties`, and the call raised
C10_Witness ==
  /\ last.op = "validate"
  /\ last.schema = Wrap("properties", Obj1("$id", JStr("urn:u2")))
  /\ Applies("properties", last.instance)
  /\ last.outcome.kind = "raise" /\ last.outcome.error = "UnsupportedFeature"

\* the position of the keyword among the members of the last call's root
LastPosition(keyword) ==
  CHOOSE p \in 1..Len(LastSchemaNode.children) :
    LastSchemaNode.children[p].children[1].sval = keyword

\* the last call returned and its root is a schema object with the keyword
LastHas(keyword) ==
  /\ LastReturned /\ LastSchemaNode.jsonType = "object"
  /\ jsonObjectHas(keyword, LastSchemaNode)

\* the unit of a keyword of the last call's root, at the root of the instance
LastKeywordUnit(keyword) ==
  [absoluteKeywordLocation |-> jsonPointerStep(keyword, LastSchemaNode).location,
   instanceLocation |-> LastInstanceNode.location]

\* whether part occurs in whole as a run of consecutive elements
IsRun(part, whole) ==
  \E k \in 0..(Len(whole) - Len(part)) : SubSeq(whole, k + 1, k + Len(part)) = part

\* the node a root-level `$ref` of the last call points to: the registered
\* tree of the reference's base (the schema's own when it has none), walked
\* along the fragment
LastRefTarget ==
  LET parts == IriParts(jsonPointerStep("$ref", LastSchemaNode).sval)
  IN jsonPointerGet(parts.pointer,
                    last.during[IF parts.base = "" THEN last.uri ELSE parts.base])

\* C11: a schema object with `$ref` passes that keyword iff the target schema
\* accepts the instance; on failure the output holds the `$ref` keyword unit
\* followed by the units the target produced, which are located in the target
\* (under the target's own location), not under the `$ref` keyword.
C11_RefAppliesTarget ==
  LastHas("$ref") =>
    LET r == validateSchema(LastRefTarget, LastInstanceNode, last.during, 2)
        h == LastHandler(LastPosition("$ref"))
    IN /\ r.thrown = ""
       /\ h.ok = r.ok
       /\ ~r.ok =>
            /\ Len(r.errors) > 0
            /\ IsRun(<<LastKeywordUnit("$ref")>> \o Units(r.errors), last.outcome.errors)
            /\ \A i \in 1..Len(r.errors) :
                 /\ r.errors[i].absoluteKeywordLocation.base = LastRefTarget.location.base
                 /\ IsPrefix(LastRefTarget.location.ptr,
                             r.errors[i].absoluteKeywordLocation.ptr)
                 /\ ~IsPrefix(jsonPointerStep("$ref", LastSchemaNode).location.ptr,
                              r.errors[i].absoluteKeywordLocation.ptr)

\* a `$ref` into `$defs` whose target rejected the instance with two units
\* of its own
C11_Witness ==
  /\ LastHas("$ref")
  /\ last.schema = Wrap("$ref", Obj1("required", JArr(<<JStr("foo"), JStr("bar")>>)))
  /\ ~last.outcome.valid
  /\ Len(last.outcome.errors) = 2
  /\ last.outcome.errors[2].absoluteKeywordLocation = Loc("", <<"$defs", "a", "required">>)

\* keys without a handler that a handler of a sibling keyword, or validate,
\* reads: then and else read `if`, contains reads minContains and maxContains,
\* validate reads `$schema`
ReadElsewhere == {"if", "minContains", "maxContains", "$schema"}

\* the outcome of the last call's inputs with member k of the schema removed
OutcomeWithout(k) == validate(EmptyRegistry, Strip(last.schema, k), last.instance).outcome

LastHasMember(k) ==
  /\ last.op = "validate" /\ last.schema.jsonType = "object"
  /\ \E i \in 1..Len(last.schema.members) : last.schema.members[i].sval = k

\* C12 as written: a property whose name has no handler does not affect the
\* outcome, whatever its value: when validate returns for a schema, it returns
\* the same valid flag and the same errors for the schema with the property
\* added.
C12_UnhandledKeywordNeutral ==
  \A k \in UnhandledKeys :
    (LastHasMember(k) /\ OutcomeWithout(k).kind = "return") =>
      last.outcome = OutcomeWithout(k)

\* C12, amended: a property whose name has no handler and is not one that
\* another keyword's handler or validate reads (`if`, minContains,
\* maxContains, `$schema`) does not affect the outcome, whatever its value.
C12_IgnoredKeywordNeutral ==
  \A k \in UnhandledKeys \ ReadElsewhere :
    (LastHasMember(k) /\ OutcomeWithout(k).kind = "return") =>
      last.outcome = OutcomeWithout(k)

\* a failing call on a schema with an ignored property in front, whose value
\* is no schema
C12_Witness ==
  /\ LastHasMember("x-unknown") /\ last.schema.members[1] = M("x-unknown", JNum(0))
  /\ last.outcome.kind = "return" /\ ~last.outcome.valid
  /\ last.outcome = OutcomeWithout("x-unknown")

\* the unit with its two locations
Unit(absoluteKeywordLocation, instanceLocation) ==
  [absoluteKeywordLocation |-> absoluteKeywordLocation,
   instanceLocation |-> instanceLocation]

\* C13: validate(true, I) returns {valid: true}; validate(false, I) returns
\* valid false with exactly one error, both locations `#`; a nested `false`
\* that is applied contributes exactly one unit, with its own location and the
\* location of the instance node it was applied to (under `items`: one unit
\* per element).
C13_BooleanSchemas ==
  (last.op = "validate" /\ ValidJson(last.instance)) =>
    /\ last.schema = JTrue => last.outcome = ReturnOutput(TRUE, FALSE, <<>>)
    /\ last.schema = JFalse =>
         last.outcome = ReturnOutput(FALSE, TRUE, <<Unit(Loc("", <<>>), Loc("", <<>>))>>)
    /\ (last.schema = Wrap("items", JFalse) /\ last.instance.jsonType = "array"
        /\ Len(last.instance.members) > 0) =>
         last.outcome = ReturnOutput(FALSE, TRUE,
           <<Unit(Loc("", <<"items">>), Loc("", <<>>))>>
           \o [i \in 1..Len(last.instance.members) |->
                 Unit(Loc("", <<"items">>), Loc("", <<IndexSegment(i - 1)>>))])
    /\ LastReturned =>
         \A i \in 1..Len(LastErrors) :
           LET o == LastErrors[i].origin
           IN o[Len(o)].keyword = "" =>
                /\ LastErrors[i].absoluteKeywordLocation = o[Len(o)].schema
                /\ LastErrors[i].instanceLocation = o[Len(o)].instance
                /\ \A j \in 1..Len(LastErrors) : LastErrors[j].origin = o => j = i

\* `false` under `items`, applied to the three elements of an array
C13_Witness ==
  /\ last.op = "validate" /\ last.schema = Wrap("items", JFalse)
  /\ last.instance.jsonType = "array" /\ Len(last.instance.members) = 3
  /\ last.outcome.kind = "return" /\ Len(last.outcome.errors) = 4

\* C14: when evaluation does not raise, {not: S} is valid on I iff S is invalid
\* on I, and a failing {not: S} returns exactly one error, the unit of `not`,
\* without child errors.  S is taken both where it stands, under `not`, and
\* as a schema of its own.
C14_NotNegates ==
  (LastHas("not") /\ Len(last.schema.members) = 1) =>
    LET S == last.schema.members[1].members[1]
        inPlace == validateSchema(jsonPointerStep("not", LastSchemaNode), LastInstanceNode,
                                  last.during, 2)
        alone == validate(EmptyRegistry, S, last.instance).outcome
    IN /\ inPlace.thrown = ""
       /\ last.outcome.valid <=> ~inPlace.ok
       /\ alone.kind = "return" => (last.outcome.valid <=> ~alone.valid)
       /\ ~last.outcome.valid => last.outcome.errors = <<LastKeywordUnit("not")>>

\* `not` over a schema that accepts the instance: the call failed with one unit
C14_Witness ==
  /\ LastHas("not")
  /\ last.schema = Wrap("not", TypeNumber) /\ last.instance = JNum(3)
  /\ ~last.outcome.valid /\ Len(last.outcome.errors) = 1

\* the subschema under a keyword of the last call's root, applied to the
\* instance where it stands
LastApplied(keyword) ==
  validateSchema(jsonPointerStep(keyword, LastSchemaNode), LastInstanceNode, last.during, 2)

\* C15: with a sibling `if`, `then` is applied iff `if` accepts the instance
\* and `else` iff `if` rejects it (so exactly one of them when both are
\* there); without a sibling `if`, `then` and `else` pass; `if` without `then`
\* and `else` does not change the result; a failing `then` or `else` yields
\* its keyword unit followed by the errors of its subschema.
C15_Conditional ==
  (LastReturned /\ LastSchemaNode.jsonType = "object") =>
    LET hasIf == jsonObjectHas("if", LastSchemaNode)
        applied(keyword) ==
          /\ hasIf
          /\ LastApplied("if").thrown = ""
          /\ LastApplied("if").ok <=> (keyword = "then")
    IN /\ \A keyword \in {"then", "else"} :
            jsonObjectHas(keyword, LastSchemaNode) =>
              LET h == LastHandler(LastPosition(keyword))
              IN /\ applied(keyword) =>
                      /\ h.ok = LastApplied(keyword).ok
                      /\ Units(h.errors) = Units(LastApplied(keyword).errors)
                      /\ ~h.ok => IsRun(<<LastKeywordUnit(keyword)>> \o Units(h.errors),
                                        last.outcome.errors)
                 /\ ~applied(keyword) => h = Pass
                 /\ ~hasIf => h = Pass
       /\ (hasIf /\ (jsonObjectHas("then", LastSchemaNode)
                   \/ jsonObjectHas("else", LastSchemaNode))) =>
            (applied("then") <=> ~applied("else"))
       /\ (hasIf /\ ~jsonObjectHas("then", LastSchemaNode)
                 /\ ~jsonObjectHas("else", LastSchemaNode)) =>
            last.outcome = OutcomeWithout("if")

\* `if` rejected the instance: `then`, which would have failed, passed, and
\* `else` failed with the unit of its subschema
C15_Witness ==
  /\ LastReturned
  /\ last.schema = Obj3("if", TypeNumber, "then", JFalse, "else",
                         Obj2("type", JStr("number"), "minimum", JNum(5)))
  /\ last.instance = JStr("foo")
  /\ last.outcome.errors =
       << Unit(Loc("", <<"else">>), Loc("", <<>>)),
          Unit(Loc("", <<"else", "type">>), Loc("", <<>>)) >>

\* the members of the array under a keyword of the last call's root, each
\* applied to the instance
LastMembers(keyword) ==
  LET array == jsonPointerStep(keyword, LastSchemaNode)
  IN [k \in 1..Len(array.children) |->
        validateSchema(array.children[k], LastInstanceNode, last.during, 2)]

\* C16: allOf, anyOf and oneOf evaluate every member against the instance,
\* without short-circuit (a member that raises makes the call raise wherever
\* it stands), and decide by the number p of passing members out of n: allOf
\* passes iff p = n, anyOf iff p >= 1, oneOf iff p = 1; when the keyword fails
\* its child errors are the errors of all failing members, in member order.
C16_Composition ==
  \A keyword \in {"allOf", "anyOf", "oneOf"} :
    (/\ last.op = "validate" /\ ValidJson(last.instance)
     /\ last.schema.jsonType = "object" /\ Len(last.schema.members) = 1
     /\ last.schema.members[1].sval = keyword
     /\ last.schema.members[1].members[1].jsonType = "array") =>
      LET rs == LastMembers(keyword)
          n == Len(rs)
          p == Cardinality({k \in 1..n : rs[k].ok})
          passes == CASE keyword = "allOf" -> p = n
                      [] keyword = "anyOf" -> p >= 1
                      [] OTHER -> p = 1
      IN IF \E k \in 1..n : rs[k].thrown # ""
         THEN last.outcome.kind = "raise"
         ELSE /\ last.outcome.kind = "return"
              /\ last.outcome.valid <=> passes
              /\ ~passes =>
                   last.outcome.errors =
                     <<LastKeywordUnit(keyword)>>
                     \o Flatten([k \in 1..n |-> Units(rs[k].errors)])

\* a oneOf of three members that failed with two members passing, its child
\* errors being those of the member that rejected
C16_Witness ==
  /\ last.op = "validate"
  /\ last.schema = Obj1("oneOf", JArr(<<TypeNumber, TypeString, Obj1("minimum", JNum(5))>>))
  /\ last.instance = JNum(7)
  /\ last.outcome.errors =
       << Unit(Loc("", <<"oneOf">>), Loc("", <<>>)),
          Unit(Loc("", <<"oneOf", "1", "type">>), Loc("", <<>>)) >>

\* the keys of the object under a keyword of the last call's root (none when
\* the keyword is absent or its value no object)
LastKeys(keyword) ==
  IF jsonObjectHas(keyword, LastSchemaNode)
     /\ jsonPointerStep(keyword, LastSchemaNode).jsonType = "object"
  THEN jsonObjectKeys(jsonPointerStep(keyword, LastSchemaNode))
  ELSE <<>>

\* the members of the instance whose name is neither a key of `properties` nor
\* matched by a pattern of `patternProperties`
LastAdditionalMembers ==
  LET additional(propertyNode) ==
        /\ \A i \in 1..Len(LastKeys("properties")) :
              LastKeys("properties")[i] # propertyNode.children[1].sval
        /\ \A i \in 1..Len(LastKeys("patternProperties")) :
              ~RegExpTest(LastKeys("patternProperties")[i], propertyNode.children[1].sval)
  IN SelectSeq(LastInstanceNode.children, additional)

\* C17 as written: on an object instance the additionalProperties subschema is
\* applied to exactly the members whose name is neither a key of `properties`
\* nor matched by a pattern of `patternProperties` (to every member when both
\* are absent): the keyword passes iff the subschema accepts the value of each
\* of these members, and its child errors are theirs, in member order.
C17_ExactlyAdditional ==
  (LastHas("additionalProperties") /\ LastInstanceNode.jsonType = "object") =>
    LET rs == [k \in 1..Len(LastAdditionalMembers) |->
                 validateSchema(jsonPointerStep("additionalProperties", LastSchemaNode),
                                LastAdditionalMembers[k].children[2], last.during, 2)]
        h == LastHandler(LastPosition("additionalProperties"))
    IN /\ h.ok <=> \A k \in 1..Len(rs) : rs[k].ok
       /\ Units(h.errors) = Flatten([k \in 1..Len(rs) |-> Units(rs[k].errors)])

\* the number of members of the last call's root-level prefixItems (0 when
\* there is none)
LastPrefixLength ==
  IF jsonObjectHas("prefixItems", LastSchemaNode)
  THEN Len(jsonPointerStep("prefixItems", LastSchemaNode).children) ELSE 0

\* the outcome of one keyword of the last call's root, had it made exactly the
\* calls validateSchema(calls[k][1], calls[k][2]) and required them all to pass
LastMakes(keyword, calls) ==
  LET rs == [k \in 1..Len(calls) |->
               validateSchema(calls[k][1], calls[k][2], last.during, 2)]
      h == LastHandler(LastPosition(keyword))
  IN /\ h.ok <=> \A k \in 1..Len(rs) : rs[k].ok
     /\ Units(h.errors) = Flatten([k \in 1..Len(rs) |-> Units(rs[k].errors)])

\* C18: on an array instance, with prefixItems of length k, element i is
\* evaluated by prefixItems[i] when i < k and by items when i >= k, by exactly
\* one of the two; without prefixItems, items is applied to every element;
\* members of prefixItems beyond the length of the instance are not evaluated.
C18_PrefixThenItems ==
  (LastReturned /\ LastSchemaNode.jsonType = "object"
   /\ LastInstanceNode.jsonType = "array") =>
    LET elements == LastInstanceNode.children
        k == LastPrefixLength
        covered == IF k < Len(elements) THEN k ELSE Len(elements)
    IN /\ jsonObjectHas("prefixItems", LastSchemaNode) =>
            LastMakes("prefixItems",
                      [i \in 1..covered |->
                         <<jsonPointerStep("prefixItems", LastSchemaNode).children[i],
                           elements[i]>>])
       /\ jsonObjectHas("items", LastSchemaNode) =>
            LastMakes("items",
                      [i \in 1..(Len(elements) - covered) |->
                         <<jsonPointerStep("items", LastSchemaNode), elements[covered + i]>>])

\* prefixItems of two members and items on an array of four elements: the
\* second element failed its prefix member, the third failed items
C18_Witness ==
  /\ LastReturned
  /\ last.schema = Obj2("prefixItems", JArr(<<TypeNumber, TypeNumber>>), "items", TypeString)
  /\ last.instance = JArr(<<JNum(3), JStr("foo"), JNum(7), JStr("abc")>>)
  /\ last.outcome.errors =
       << Unit(Loc("", <<"prefixItems">>), Loc("", <<>>)),
          Unit(Loc("", <<"prefixItems", "1", "type">>), Loc("", <<"1">>)),
          Unit(Loc("", <<"items">>), Loc("", <<>>)),
          Unit(Loc("", <<"items", "type">>), Loc("", <<"2">>)) >>

\* the names of the members of the last call's instance, and the strings
\* listed in an array of a schema
LastInstanceKeys == { last.instance.members[i].sval : i \in 1..Len(last.instance.members) }
Listed(array) ==
  { array.members[j].sval : j \in { i \in 1..Len(array.members) :
                                      array.members[i].jsonType = "string" } }

\* C19: on an object instance `required` fails iff some listed key is absent,
\* and dependentRequired fails iff some key of the keyword is present while
\* one of its listed keys is absent; a failure contributes exactly one unit,
\* the keyword unit at the location of the instance, and no child units,
\* however many keys are missing or conditions fail.
C19_SingleKeywordError ==
  LastReturned =>
    /\ \A keyword \in {"required", "dependentRequired"} :
         (/\ last.schema.jsonType = "object" /\ Len(last.schema.members) = 1
          /\ last.schema.members[1].sval = keyword
          /\ last.instance.jsonType = "object") =>
           LET value == last.schema.members[1].members[1]
               fails ==
                 IF keyword = "required"
                 THEN Listed(value) \ LastInstanceKeys # {}
                 ELSE \E i \in 1..Len(value.members) :
                        /\ value.members[i].sval \in LastInstanceKeys
                        /\ Listed(value.members[i].members[1]) \ LastInstanceKeys # {}
           IN /\ last.outcome.valid <=> ~fails
              /\ fails => last.outcome.errors = <<LastKeywordUnit(keyword)>>
    /\ \A i \in 1..Len(LastErrors) :
         LET o == LastErrors[i].origin
         IN \A k \in 1..Len(o) :
              o[k].keyword \in {"required", "dependentRequired"} =>
                /\ k = Len(o)
                /\ LastErrors[i].instanceLocation = o[k].instance
                /\ LastErrors[i].absoluteKeywordLocation =
                     Loc(o[k].schema.base, Append(o[k].schema.ptr, o[k].keyword))
                /\ \A j \in 1..Len(LastErrors) : LastErrors[j].origin = o => j = i

\* dependentRequired with two conditions that both fail, three keys missing in
\* all: one unit
C19_Witness ==
  /\ LastReturned
  /\ last.schema = Obj1("dependentRequired",
                         Obj2("foo", JArr(<<JStr("baz"), JStr("b")>>),
                              "bar", JArr(<<JStr("baz"), JStr("foo"), JStr("a")>>)))
  /\ last.instance = Obj2("foo", JNum(3), "bar", JStr("abc"))
  /\ last.outcome.errors = << Unit(Loc("", <<"dependentRequired">>), Loc("", <<>>)) >>

\* the locations of the nodes of a tree
RECURSIVE Locations(_)
Locations(node) ==
  {node.location} \cup UNION { Locations(node.children[i]) : i \in 1..Len(node.children) }

\* C20 as written: every unit returned by validate carries the location of a
\* node of a registered schema tree as absoluteKeywordLocation and the
\* location of a node of the instance tree as instanceLocation; so does each
\* unit produced under propertyNames, whose instanceLocation is the location
\* of the member in the instance tree, whatever the member's name.
C20_LocationsExist ==
  (last.op = "validate" /\ last.outcome.kind = "return") =>
    \A i \in 1..Len(last.outcome.errors) :
      /\ \E u \in Uris :
           /\ last.during[u] # NoNode
           /\ last.outcome.errors[i].absoluteKeywordLocation \in Locations(last.during[u])
      /\ last.outcome.errors[i].instanceLocation \in Locations(LastInstanceNode)

\* the nesting depth of a JSON value: 0 for a scalar, one more than its
\* deepest element or member value for an array or an object
RECURSIVE Nesting(_)
Nesting(raw) ==
  LET value(i) == IF raw.jsonType = "object" THEN raw.members[i].members[1]
                  ELSE raw.members[i]
      depths == { Nesting(value(i)) : i \in 1..Len(raw.members) }
  IN IF raw.jsonType \notin {"array", "object"} THEN 0
     ELSE IF depths = {} THEN 1
     ELSE 1 + (CHOOSE d \in depths : \A e \in depths : e <= d)

\* whether the recursion of the last call nests validateSchema more than
\* levels deep: started with only that many levels left, it exhausts them
LastNestsBeyond(levels) ==
  validateSchema(LastSchemaNode, LastInstanceNode, last.during,
                 MaxDepth + 1 - levels).thrown = "RangeError"

\* C21 as written: every validate call terminates, the nesting of the
\* validateSchema calls being bounded by the nesting depth of the schema plus
\* the nesting depth of the instance (the call on the root counted apart),
\* also for schemas that use `$ref`.
C21_DepthBounded ==
  (last.op = "validate" /\ ValidJson(last.schema) /\ ValidJson(last.instance)
   /\ last.outcome.error # "UnsupportedDialect") =>
    /\ ~LastNestsBeyond(Nesting(last.schema) + Nesting(last.instance) + 1)
    /\ last.outcome.error # "RangeError"

\* the nodes of a tree
RECURSIVE Nodes(_)
Nodes(node) ==
  {node} \cup UNION { Nodes(node.children[i]) : i \in 1..Len(node.children) }

\* what the keywords 1..p of the last call's root have appended to the errors
\* of the call when the p-th handler has returned
LastAppendedBy(p) ==
  Flatten([q \in 1..p |->
    IF LastHandled(q)
    THEN Units(Dispatch(LastSchemaNode, LastInstanceNode, q, LastHandler(q)))
    ELSE <<>>])

\* C22: a call validateSchema(S, I, errors) that returns, at any depth (S any
\* node of the registered schema, I any node of the instance), has appended at
\* least one unit iff it returns false and none iff it returns true; what is
\* in the list stays in it, in place: the list after each keyword of the root
\* is a prefix of the list the call ends with.
C22_ExtendedIffFalse ==
  (last.op = "validate" /\ ValidJson(last.instance) /\ LastSchemaNode # NoNode) =>
    /\ \A S \in Nodes(LastSchemaNode), I \in Nodes(LastInstanceNode) :
         LET r == validateSchema(S, I, last.during, 2)
         IN r.thrown = "" => (r.ok <=> Len(r.errors) = 0)
    /\ (LastReturned /\ LastSchemaNode.jsonType = "object") =>
         \A p \in 0..Len(LastSchemaNode.children) :
           IsPrefix(LastAppendedBy(p), Units(LastErrors))

\* a failing call under whose root a subschema accepts one element of the
\* instance and rejects another, and whose root has two failing keywords
C22_Witness ==
  /\ LastReturned /\ LastSchemaNode.jsonType = "object"
  /\ \E S \in Nodes(LastSchemaNode), I, J \in Nodes(LastInstanceNode) :
       /\ S # LastSchemaNode
       /\ validateSchema(S, I, last.during, 2) = Pass
       /\ Len(validateSchema(S, J, last.during, 2).errors) > 0
  /\ \E p \in 1..(Len(LastSchemaNode.children) - 1) :
       /\ Len(LastAppendedBy(p)) > 0
       /\ Len(LastAppendedBy(p)) < Len(LastErrors)

\* C23: a call validate(schema, instance) adds, changes or removes no entry of
\* the registry but the one under the URI it computes from the schema, and a
\* call registerSchema(schema, u) none but the one under u: every entry under
\* another URI is the same tree before and after the call, whether the call
\* returns or raises.
C23_RegistryFrame ==
  [][\A u \in Uris :
       LET touched == IF last'.op = "validate" THEN SchemaUri(last'.schema) ELSE last'.uri
       IN u # touched => schemaRegistry'[u] = schemaRegistry[u]]_vars

\* a validate call computing "" has raised on an unsupported keyword, and the
\* entry registered under urn:u1 is there as it was registered
C23_Witness ==
  /\ preRegistered["urn:u1"] # NotRegistered
  /\ schemaRegistry["urn:u1"] = toJsonNode(preRegistered["urn:u1"], "urn:u1")
  /\ last.op = "validate" /\ SchemaUri(last.schema) = ""
  /\ last.outcome.kind = "raise"
  /\ last.outcome.error = "UnsupportedFeature"


====
